---- MODULE Spec2Model ----
(***************************************************************************)
(* State-machine model of the TrueNAS installer (package truenas_install): *)
(* TrueNASInstaller.install / install_update (src/__init__.py), the boot   *)
(* pool and boot environments (src/bootpool.py), pools and datasets        *)
(* (src/zfs.py) and mounts (src/diskutils.py).                             *)
(*                                                                         *)
(* Level of the model: the external tools (zfs, zpool, mount, umount,      *)
(* sgdisk, unsquashfs, ...) are modelled by their effect on a flat         *)
(* property store, a set of datasets and a mount table; every method is    *)
(* modelled by the control flow and the tool invocations of its body, and  *)
(* a call is modelled by the body of the method it names.  How Python      *)
(* binds the arguments of those calls is not part of the model.            *)
(* An external command fails only where an action draws its outcome.       *)
(***************************************************************************)
EXTENDS Integers, Sequences, FiniteSets, TLC

VARIABLES
    pc,              \* position of the running operation
    entry,           \* operation under execution: "install" or "install_update"
    upgrade_type,    \* TrueNASInstaller.upgrade_type: "format" or "inplace"
    upgrade,         \* argument of install(upgrade)
    cleanup,         \* argument of install_update(.., cleanup)
    preserved_data,  \* install_update's preserved_data is truthy
    srcIsFile,       \* src.is_file() of install_update's src
    isFreeBSD,       \* IS_FREEBSD
    uefi,            \* booted_as_uefi()
    poolExists,      \* the boot pool exists on the disks
    imported,        \* the boot pool is imported
    datasets,        \* names that `zfs list -H -o name` prints
    props,           \* dataset name -> property name -> raw value
    bootfs,          \* raw value of the pool's bootfs property
    keysource,       \* raw value of org.zfsbootmenu:keysource as the pool's datasets read it
    free_space,      \* the pool's free property, in bytes
    manifest,        \* the parsed manifest.json of the source
    update_mnt,      \* install_update's update_mnt is not None
    bootenvName,     \* bootenv.name in install_update
    old_bootfs_prop, \* install_update's local old_bootfs_prop
    setup_machine_id,\* install_update's local setup_machine_id
    configure_serial,\* install_update's local configure_serial
    mounts,          \* mount table: what is mounted, in mount order
    cmds,            \* tool invocations issued so far, in order
    sentinels,       \* sentinel files present in the new environment
    upgradeData,     \* the staged directory UPGRADE_DATA exists
    exc,             \* exception in flight or raised ("" when none)
    calls,           \* number of mount()/unmount() calls made on the object under test
    got,             \* what the last get_prop() or cmd() on the object under test returned
    builder,         \* the PoolBuilder under test: its fields
    options,         \* Mount.options of the Mount under test
    disks,           \* TrueNASInstaller.disks: the disks, their roles and partitions
    swap,            \* TrueNASInstaller.swap is truthy
    boot_size,       \* TrueNASInstaller.boot_size, in GiB (0 for None)
    wipe,            \* argument of create_partitions(wipe)
    format_efi,      \* argument of install_bootloader(format_efi)
    todo,            \* install_bootloader: the bootloader disks its loop has yet to visit
    partition,       \* install_bootloader's local partition (its device name)
    unsq,            \* the unsquashfs generator and its subprocess: p, the pipe, buffer
    pre              \* the pool as it was before the operation started

vars == << pc, entry, upgrade_type, upgrade, cleanup, preserved_data, srcIsFile,
           isFreeBSD, uefi, poolExists, imported, datasets, props, bootfs,
           keysource, free_space, manifest, update_mnt, bootenvName,
           old_bootfs_prop, setup_machine_id, configure_serial, mounts, cmds,
           sentinels, upgradeData, exc, calls, got, builder, options, disks,
           swap, boot_size, wipe, format_efi, todo, partition, unsq, pre >>

---------------------------------------------------------------------------
(* Bounds of the model *)

\* largest size in bytes drawn for the manifest's size and the pool's free space
MaxSize == 3
\* largest suffix k of a dataset <name>-k that exists before install_update
MaxSuffix == 1
\* largest exit code drawn for truenas-initrd.py
MaxRc == 2
\* largest number of mount()/unmount() calls made on one dataset or environment
MaxCalls == 4
\* largest number of set_props()/get_prop() calls made on one container
MaxPropCalls == 3
\* largest number of create_partitions() calls made in a row
MaxPlanCalls == 2

---------------------------------------------------------------------------
(* Python values and the property store (src/zfs.py) *)

\* Python's None, distinct from every string a tool prints
PyNone == "<None>"

\* the Python values True, False and 0, and the mark of a keyword argument
\* that was not passed
PyTrue == "<True>"
PyFalse == "<False>"
PyZero == "<0>"
Absent == "<absent>"

\* truth value Python gives a value
Truthy(v) == v \notin {PyNone, "", PyFalse, PyZero}

\* f"{v}" as set_props and the log messages format a value
PyStr(v) == IF v = PyNone THEN "None" ELSE v

\* raw value of a property that is not set, as `zfs get` / `zpool get` print it
Unset == "-"

BOOT_POOL == "boot-pool"

\* BootPool.root_dataset: <pool>/ROOT
RootDataset == BOOT_POOL \o "/" \o "ROOT"

\* Dataset.__init__ on a list of segments ('/'-joined)
DatasetName(parent, name) == parent \o "/" \o name

PropNames == {"mountpoint", "orig_mountpoint", "orig_mntpoint", "canmount"}

\* a dataset no property of which was ever set
NoProps == [k \in PropNames |-> Unset]

\* the values the model stores that carry leading or trailing whitespace,
\* and what str.strip() makes of them
Padded == {" ", " -", "/mnt/a ", " /mnt/a"}

\* stdout.strip() (zfs.py line 28) on a value as the tool printed it, the
\* line end left out
Strip(raw) ==
    CASE raw = " " -> ""
      [] raw = " -" -> "-"
      [] raw = "/mnt/a " -> "/mnt/a"
      [] raw = " /mnt/a" -> "/mnt/a"
      [] OTHER -> raw

\* ZfsContainer.get_prop: the stripped value, with "" and "-" read as None
GetProp(raw) ==
    LET value == Strip(raw)
    IN  IF value = "" \/ value = "-" THEN PyNone ELSE value

\* ZfsContainer.set_props for one property: stores f"{value}"
SetProp(p, k, v) == [p EXCEPT ![k] = PyStr(v)]

\* Dataset._mntpoint
Mntpoint(p) ==
    LET path == GetProp(p["mountpoint"])
    IN  IF Truthy(path) /\ path = "-" THEN PyNone ELSE path

\* Dataset.mount, its effect on the properties: `mountpoint != orig_mntpoint`
\* compares a Path with a str or None, which are never equal, so both
\* properties are always set (mountpoint first, then orig_mountpoint)
DatasetMountPropsWrong(p, path) ==
    SetProp(SetProp(p, "mountpoint", path), "orig_mountpoint", path)
DatasetMountProps(p, path) ==
    LET orig_mntpoint == Mntpoint(p)
    IN  SetProp(SetProp(p, "mountpoint", path), "orig_mountpoint", orig_mntpoint)

\* Dataset.unmount, its effect on the properties
DatasetUnmountProps(p) ==
    LET orig_mntpoint == GetProp(p["orig_mountpoint"])
    IN  IF Truthy(orig_mntpoint)
        THEN SetProp(SetProp(p, "orig_mntpoint", ""), "mountpoint", orig_mntpoint)
        ELSE p

---------------------------------------------------------------------------
(* Mounts (src/diskutils.py) and boot environments (src/bootpool.py) *)

Range(s) == {s[i] : i \in 1..Len(s)}

\* PoolBuilder.__init__ (zfs.py 98-106): the dicts and the vdev list start
\* empty; a dict is the sequence of its items in insertion order
NewBuilder(default_features, force) ==
    [default_features |-> default_features, force |-> force,
     features |-> << >>, fsprops |-> << >>, props |-> << >>, vdevs |-> << >>]

\* the keywords a Mount of the model may be given
OptNames == {"loop", "ro", "size"}
NoOptions == [n \in OptNames |-> Absent]

\* Path.is_mount() of the place a label names
IsMount(m, x) == x \in Range(m)

\* the mount table after unmounting x
Umount(m, x) == SelectSeq(m, LAMBDA y : y # x)

RECURSIVE UmountAll(_, _)
UmountAll(m, xs) ==
    IF xs = <<>> THEN m ELSE UmountAll(Umount(m, Head(xs)), Tail(xs))

\* one tool invocation in the log
Cmd(op, arg) == [op |-> op, arg |-> arg]

CmdsOf(op, xs) == [i \in 1..Len(xs) |-> Cmd(op, xs[i])]

\* unsquashfs(): no subprocess yet.  state is that of the subprocess p,
\* returncode its exit status, written and pipe what it has written to and
\* what is still in its stdout pipe, buffer the generator's local, yielded
\* the fractions the generator has delivered, live how many of them while p
\* was running
NoUnsq ==
    [state |-> "none", returncode |-> 0, written |-> << >>, pipe |-> << >>,
     buffer |-> << >>, yielded |-> << >>, live |-> 0]

\* BootEnviroment.__init__: the auxiliary mounts, efivars when UEFI-booted
AuxMnts(u) ==
    << "dev", "proc", "sys" >> \o (IF u THEN << "efivars" >> ELSE << >>)

\* BootEnviroment.keystore: the keystore dataset, when the property names one
Keystore(raw) == GetProp(raw)

\* BootEnviroment.mount: what is mounted, in order
BEMountOrderWrong(u, ks) ==
    AuxMnts(u) \o << "root" >> \o
    (IF Truthy(Keystore(ks)) THEN << "keystore" >> ELSE << >>)
BEMountOrder(u, ks) ==
    << "root" >> \o AuxMnts(u) \o
    (IF Truthy(Keystore(ks)) THEN << "keystore" >> ELSE << >>)

\* BootEnviroment.unmount: what is unmounted, in order, given the mount table
BEUnmountOrderWrong(m, u, ks) ==
    (IF IsMount(m, "keystore") THEN << "keystore" >> ELSE << >>) \o
    SelectSeq(AuxMnts(u), LAMBDA x : IsMount(m, x)) \o
    << "root" >>
BEUnmountOrder(m, u, ks) ==
    (IF Truthy(Keystore(ks)) THEN << "keystore" >> ELSE << >>) \o
    SelectSeq(AuxMnts(u), LAMBDA x : IsMount(m, x)) \o
    << "root" >>

---------------------------------------------------------------------------
(* Disks and the partition planner (src/diskutils.py, src/__init__.py 42-155).
   Sizes of disks and partitions are in KiB, the unit of sgdisk's K suffix. *)

\* UnitPrefix.GiB (utils.py 132) and sgdisk's G suffix, in KiB
GiB == 1048576

\* MIN_ZFS_PARTITION_SIZE = 8 * UnitPrefix.GB: 8 * 10^9 bytes
MIN_ZFS_PARTITION_SIZE == 7812500

\* MIN_SWAPSAFE_MEDIASIZE = 60 * UnitPrefix.GB: 60 * 10^9 bytes
MIN_SWAPSAFE_MEDIASIZE == 58593750

\* PartitionType: the type codes
BIOS == "EF02"
EFI == "EF00"
LinuxSwap == "8200"
ZFS == "BF01"
PartitionTypes == {BIOS, EFI, LinuxSwap, ZFS}

\* the sizes create_partitions asks for: +1024K, +524288K, +16777216K
BiosSize == 1024
EfiSize == 524288
SwapSize == 16777216

\* DiskUse, a Flag: NONE = 0, Bootloader = 1, BootPool = 3
UseNone == 0
UseBootloader == 1
UseBootPool == 3

\* `flag in use` of a Flag: every bit of flag is set in use
BitAnd(a, b) == (a % 2) * (b % 2) + 2 * (((a \div 2) % 2) * ((b \div 2) % 2))
InUseWrong(flag, use) == use = flag
InUse(flag, use) == BitAnd(flag, use) = flag

\* a disk with an empty partition table
NoParts == [t \in PartitionTypes |-> 0]

\* next(disk.partitions(lambda p: p.get_guid() == type), None) == None
NoPartitionWrong(d, type) == d.parts[type] # 0
NoPartition(d, type) == d.parts[type] = 0

\* space of the disk no partition holds
FreeOn(d) == d.capacity - (d.parts[BIOS] + d.parts[EFI] + d.parts[LinuxSwap] + d.parts[ZFS])

\* Disk.not_swap_safe
NotSwapSafe(d) == d.capacity < MIN_SWAPSAFE_MEDIASIZE \/ d.removable

\* the planner at work on one disk: the disk, the invocations issued for it
\* and the error raised, "" when none
Step(d, c, e) == [disk |-> d, cmds |-> c, err |-> e]

\* Disk.wipe_partition_table: sgdisk -Z, checked
WipePartitionTableWrong(d, ok) ==
    Step(d, << Cmd("sgdisk -Z", d.name) >>, IF ok THEN "" ELSE "sgdisk")
WipePartitionTable(d, ok) ==
    Step(IF ok THEN [d EXCEPT !.parts = NoParts] ELSE d,
         << Cmd("sgdisk -Z", d.name) >>,
         IF ok THEN "" ELSE "sgdisk")

\* Disk.create_partition(partnum, typecode, end=...): sgdisk --new, checked;
\* size 0 asks for the rest of the disk; sgdisk fails when the tool does
\* (ok is false) or when the disk has no room for the partition
CreatePartition(st, type, size, ok) ==
    LET d == st.disk
        actual == IF size = 0 THEN FreeOn(d) ELSE size
        done == ok /\ actual > 0 /\ actual <= FreeOn(d)
    IN  IF st.err # "" THEN st
        ELSE Step(IF done THEN [d EXCEPT !.parts[type] = actual] ELSE d,
                  Append(st.cmds, Cmd("sgdisk --new " \o type, d.name)),
                  IF done THEN "" ELSE "sgdisk")

\* wipefs -a -t zfs_member on the new swap partition (lines 130-132)
WipeFs(st) ==
    IF st.err # "" THEN st
    ELSE [st EXCEPT !.cmds = Append(@, Cmd("wipefs", st.disk.name))]

\* the check of the new pool partition's capacity (lines 151-155)
TooSmall(capacity) == capacity < MIN_ZFS_PARTITION_SIZE

SizeCheck(st) ==
    IF st.err # "" THEN st
    ELSE IF TooSmall(st.disk.parts[ZFS]) THEN [st EXCEPT !.err = "too_small"]
    ELSE st

\* the swap partition is wanted on a pool disk (lines 118-127)
WantsSwap(d, sw) == sw /\ NoPartition(d, LinuxSwap)

\* the body of create_partitions' loop for one disk (lines 85-155)
PlanDisk(d, w, sw, bs, ok) ==
    LET s0 == IF w THEN WipePartitionTable(d, ok) ELSE Step(d, << >>, "")
        s1 == IF InUse(UseBootloader, d.use) /\ NoPartition(s0.disk, BIOS)
              THEN CreatePartition(s0, BIOS, BiosSize, ok) ELSE s0
        s2 == IF InUse(UseBootloader, d.use) /\ NoPartition(s1.disk, EFI)
              THEN CreatePartition(s1, EFI, EfiSize, ok) ELSE s1
        s3 == IF InUse(UseBootPool, d.use) /\ WantsSwap(s2.disk, sw)
              THEN WipeFs(CreatePartition(s2, LinuxSwap, SwapSize, ok)) ELSE s2
        s4 == IF InUse(UseBootPool, d.use) /\ NoPartition(s3.disk, ZFS)
              THEN SizeCheck(CreatePartition(s3, ZFS, bs * GiB, ok)) ELSE s3
    IN  s4

\* create_partitions' loop over self.disks from the i-th disk on: the disks
\* as it leaves them, the invocations issued and the error raised
RECURSIVE PlanDisks(_, _, _, _, _, _)
PlanDisks(ds, i, w, sw, bs, ok) ==
    IF i > Len(ds) THEN [disks |-> ds, cmds |-> << >>, err |-> ""]
    ELSE LET r == PlanDisk(ds[i], w, sw, bs, ok)
             after == [ds EXCEPT ![i] = r.disk]
         IN  IF r.err # ""
             THEN [disks |-> after, cmds |-> r.cmds, err |-> r.err]
             ELSE LET rest == PlanDisks(after, i + 1, w, sw, bs, ok)
                  IN  [disks |-> rest.disks, cmds |-> r.cmds \o rest.cmds,
                       err |-> rest.err]

---------------------------------------------------------------------------
(* Unit/size utilities (src/utils.py) *)

\* UnitPrefix.find_unit returns no unit (None) unless num / mult > 1.0 for
\* some unit, the smallest being 1 byte; format_bytes then fails to unpack
FormatBytesFails(num) == ~ (num > 1)

---------------------------------------------------------------------------
(* The inputs *)

\* sizes in bytes of an image and of a pool's free space: more than one byte
Sizes == 2..MaxSize

RetCodes == 0..MaxRc

Versions == {"22.12", "22.12-1"}

\* boot environment a manifest version names: <pool>/ROOT/<version>
EnvName(version) == DatasetName(RootDataset, version)

\* the boot environment bootable before the operation, when there is one
OldEnv == EnvName("21.08")

\* datasets named like the new boot environment that may already exist
Collisions ==
    {EnvName("22.12")} \cup
    {EnvName("22.12") \o "-" \o ToString(k) : k \in 1..MaxSuffix}

NoManifest == [version |-> "", size |-> 0]

\* properties of a boot environment that was installed earlier
InstalledProps ==
    [NoProps EXCEPT !["mountpoint"] = "/", !["canmount"] = "noauto"]

\* properties of the pool's own dataset and of <pool>/ROOT (BootPool.create)
ContainerProps ==
    [NoProps EXCEPT !["mountpoint"] = "none", !["canmount"] = "off"]

KeystoreDataset == DatasetName(BOOT_POOL, "keystore")

\* properties of the keystore dataset (BootPool.create: mountpoint /etc/<keystore>)
KeystoreProps == [NoProps EXCEPT !["mountpoint"] = "/etc/keystore"]

PropsOf(ds) ==
    [d \in ds |-> IF d \in {BOOT_POOL, RootDataset} THEN ContainerProps
                  ELSE IF d = KeystoreDataset THEN KeystoreProps
                  ELSE InstalledProps]

\* capacities of the disks, in KiB: 4 GiB; 8 000 000 KiB more than the two
\* boot partitions take; 50 * 10^9 bytes; 64 * 10^9 bytes
Capacities == {4194304, 8525312, 48828125, 62500000}

\* a partition table with the two boot partitions, a swap partition when sw
\* and the pool partition on what is left
FullParts(capacity, sw) ==
    LET boot == [NoParts EXCEPT ![BIOS] = BiosSize, ![EFI] = EfiSize]
        swapped == IF sw THEN [boot EXCEPT ![LinuxSwap] = SwapSize] ELSE boot
    IN  [swapped EXCEPT ![ZFS] =
            capacity - (swapped[BIOS] + swapped[EFI] + swapped[LinuxSwap])]

\* partition tables a disk may carry before the planner runs
Layouts(capacity) ==
    {NoParts, [NoParts EXCEPT ![BIOS] = BiosSize, ![EFI] = EfiSize],
     FullParts(capacity, FALSE)} \cup
    (IF capacity > BiosSize + EfiSize + SwapSize
     THEN {FullParts(capacity, TRUE)} ELSE {})

\* TruenasDisk(name, use), with any capacity and partition table
DiskStates(name, uses, removables) ==
    UNION {{[name |-> name, use |-> u, capacity |-> c, removable |-> r,
             parts |-> p] : u \in uses, r \in removables, p \in Layouts(c)} :
           c \in Capacities}

\* the disk of an installed system
InstalledDisks ==
    << [name |-> "sda", use |-> UseBootPool, capacity |-> 62500000,
        removable |-> FALSE, parts |-> FullParts(62500000, FALSE)] >>

\* the disks install() is given: one blank pool disk of any capacity, or a
\* partitioned pool disk with a second disk of either role
InstallDisks ==
    {<< d >> : d \in {x \in DiskStates("sda", {UseBootPool}, {FALSE}) :
                        x.parts = NoParts}} \cup
    {InstalledDisks \o << d >> :
        d \in {x \in DiskStates("sdb", {UseBootloader, UseBootPool}, {FALSE}) :
                  x.parts = NoParts /\ x.capacity = 62500000}}

---------------------------------------------------------------------------
(* Initial states: the disks, the pool and the arguments of the operation *)

\* the pool before the operation: absent, freshly created (no boot
\* environment, bootfs unset) or installed (bootfs names OldEnv), with any
\* of the colliding names already taken
InitPool ==
    /\ poolExists \in BOOLEAN
    /\ \E installed \in BOOLEAN, taken \in SUBSET Collisions, ks \in BOOLEAN :
        IF poolExists
        THEN /\ datasets = {BOOT_POOL, RootDataset} \cup taken
                           \cup (IF installed THEN {OldEnv} ELSE {})
                           \cup (IF ks THEN {KeystoreDataset} ELSE {})
             /\ bootfs = IF installed THEN OldEnv ELSE Unset
             /\ keysource = IF ks THEN KeystoreDataset ELSE Unset
        ELSE /\ datasets = {}
             /\ bootfs = Unset
             /\ keysource = Unset
    /\ props = PropsOf(datasets)
    /\ free_space \in Sizes

\* the pool as the operation finds it
Snapshot ==
    [bootfs |-> bootfs, datasets |-> datasets, props |-> props,
     poolExists |-> poolExists, disks |-> disks]

\* install(upgrade) calls install_update(UPDATE_FILE, UPGRADE_DATA): cleanup
\* keeps its default and preserved_data is a non-empty Path, which is truthy
InitArgs ==
    /\ entry \in {"install", "install_update"}
    /\ IF entry = "install"
       THEN /\ upgrade_type \in {"format", "inplace"}
            /\ upgrade \in BOOLEAN
            /\ cleanup = TRUE
            /\ preserved_data = TRUE
            /\ imported \in {FALSE, poolExists}
            /\ upgradeData \in BOOLEAN
            /\ pc = "i_cleanup"
       ELSE /\ upgrade_type = "inplace"
            /\ upgrade = FALSE
            /\ cleanup \in BOOLEAN
            /\ preserved_data \in BOOLEAN
            /\ poolExists
            /\ imported = TRUE
            /\ upgradeData = preserved_data
            /\ pc = "iu_src"
    /\ srcIsFile \in BOOLEAN
    /\ disks \in IF entry = "install" /\ upgrade_type = "format"
                 THEN InstallDisks ELSE {InstalledDisks}
    /\ swap = FALSE
    /\ boot_size = 0
    /\ wipe = TRUE

Init ==
    /\ InitPool
    /\ InitArgs
    /\ isFreeBSD \in BOOLEAN
    /\ uefi \in BOOLEAN
    /\ manifest = NoManifest
    /\ update_mnt = FALSE
    /\ bootenvName = ""
    /\ old_bootfs_prop = PyNone
    /\ setup_machine_id = FALSE
    /\ configure_serial = FALSE
    /\ mounts = << >>
    /\ cmds = << >>
    /\ sentinels = {}
    /\ exc = ""
    /\ calls = 0
    /\ got = PyNone
    /\ builder = NewBuilder(TRUE, FALSE)
    /\ options = NoOptions
    /\ format_efi = FALSE
    /\ todo = {}
    /\ partition = PyNone
    /\ unsq = NoUnsq
    /\ pre = Snapshot

\* variable groups the actions leave alone
cfgVars == << entry, upgrade_type, upgrade, cleanup, preserved_data, srcIsFile,
              isFreeBSD, uefi, calls, got, builder, options, swap, boot_size,
              wipe, format_efi, todo, partition, unsq, pre >>
argVars == << cfgVars, disks >>
poolVars == << poolExists, imported, datasets, props, bootfs, keysource, free_space >>
localVars == << manifest, update_mnt, bootenvName, old_bootfs_prop,
                setup_machine_id, configure_serial >>

---------------------------------------------------------------------------
(* TrueNASInstaller.install_update (src/__init__.py 281-462) *)

NEED_UPDATE_SENTINEL == "data/need-update"
FREEBSD_UPDATE_SENTINEL == "data/freebsd-to-scale-update"
FIRST_INSTALL_SENTINEL == "data/first-boot"
TRUENAS_EULA_PENDING_SENTINEL == "data/truenas-eula-pending"

\* the suffix probe of lines 312-317: itertools.count(1), first unused name
RECURSIVE Probe(_, _, _)
Probe(name, existing, i) ==
    LET probe_dataset_name == name \o "-" \o ToString(i)
    IN  IF probe_dataset_name \notin existing
        THEN probe_dataset_name
        ELSE Probe(name, existing, i + 1)

NewNameWrong(name, existing) ==
    IF name \in existing THEN name \o "-" \o ToString(1) ELSE name
NewName(name, existing) ==
    IF name \in existing THEN Probe(name, existing, 1) ELSE name

\* where the boot environment is mounted: base_mount / pool / be_name
BEPath(name) == "/mnt/" \o name

\* install()'s in-place sequence (lines 260, 271-273): the step that follows
\* each step that returned
InstallNextWrong(step) ==
    CASE step = "import" -> "iu_src"
      [] step = "install_update" -> "i_export"
      [] step = "export" -> "i_bootloader"
      [] step = "bootloader" -> "done"
InstallNext(step) ==
    CASE step = "import" -> "iu_src"
      [] step = "install_update" -> "i_bootloader"
      [] step = "bootloader" -> "i_export"
      [] step = "export" -> "done"

\* an exception leaves install_update: install()'s handler logs and re-raises
Raised(e) ==
    /\ pc' = "raised"
    /\ exc' = e

\* src.is_file(): mount the image, loopback (lines 284-291)
IU_Source ==
    /\ pc = "iu_src"
    /\ IF srcIsFile
       THEN \E ok \in BOOLEAN :
            /\ update_mnt' = TRUE
            /\ IF ok
               THEN /\ mounts' = Append(Umount(mounts, "update"), "update")
                    /\ cmds' = cmds \o << Cmd("umount", "update"), Cmd("mount", "update") >>
                    /\ pc' = "iu_manifest"
                    /\ exc' = exc
               ELSE /\ mounts' = Umount(mounts, "update")
                    /\ cmds' = cmds \o << Cmd("umount", "update") >>
                    /\ Raised("mount_source")
       ELSE /\ update_mnt' = FALSE
            /\ pc' = "iu_manifest"
            /\ UNCHANGED << mounts, cmds, exc >>
    /\ UNCHANGED << argVars, poolVars, manifest, bootenvName, old_bootfs_prop,
                    setup_machine_id, configure_serial, sentinels, upgradeData >>

\* json.loads of manifest.json (lines 293-294)
IU_Manifest ==
    /\ pc = "iu_manifest"
    /\ \/ /\ \E v \in Versions, s \in Sizes :
               manifest' = [version |-> v, size |-> s]
          /\ pc' = "iu_space"
          /\ exc' = exc
       \/ /\ Raised("manifest")
          /\ manifest' = manifest
    /\ UNCHANGED << argVars, poolVars, update_mnt, bootenvName, old_bootfs_prop,
                    setup_machine_id, configure_serial, mounts, cmds, sentinels,
                    upgradeData >>

\* the space check (lines 294-303)
SpaceCheckFailsWrong(free, required) == free <= required
SpaceCheckFails(free, required) == free < required

IU_Space ==
    /\ pc = "iu_space"
    /\ IF FormatBytesFails(manifest.size) \/ FormatBytesFails(free_space)
       THEN Raised("format_bytes")
       ELSE IF SpaceCheckFails(free_space, manifest.size)
            THEN Raised("insufficient_space")
            ELSE /\ pc' = "iu_name"
                 /\ exc' = exc
    /\ UNCHANGED << argVars, poolVars, localVars, mounts, cmds, sentinels,
                    upgradeData >>

\* the boot environment's name (lines 306-317)
IU_Name ==
    /\ pc = "iu_name"
    /\ old_bootfs_prop' = GetProp(bootfs)
    /\ \/ /\ bootenvName' = NewName(EnvName(manifest.version), datasets)
          /\ pc' = "iu_create"
          /\ exc' = exc
       \/ /\ bootenvName' = EnvName(manifest.version)
          /\ Raised("list")
    /\ UNCHANGED << argVars, poolVars, manifest, update_mnt, setup_machine_id,
                    configure_serial, mounts, cmds, sentinels, upgradeData >>

\* bootenv.create (lines 318-326)
IU_Create ==
    /\ pc = "iu_create"
    /\ \/ /\ datasets' = datasets \cup {bootenvName}
          /\ props' = [d \in datasets' |->
                          IF d = bootenvName
                          THEN [NoProps EXCEPT !["mountpoint"] = "legacy",
                                               !["canmount"] = "noauto"]
                          ELSE props[d]]
          /\ cmds' = Append(cmds, Cmd("create", bootenvName))
          /\ pc' = "iu_mount_root"
          /\ exc' = exc
       \/ /\ Raised("create")
          /\ UNCHANGED << datasets, props, cmds >>
    /\ UNCHANGED << argVars, poolExists, imported, bootfs, keysource, free_space,
                    localVars, mounts, sentinels, upgradeData >>

\* an exception inside the try block: control goes to the handler (line 454)
Caught(e) ==
    /\ pc' = "iu_except"
    /\ exc' = e

\* entering `with Mount(bootenv.name, bootenv.root, fs="zfs")` (line 329)
IU_MountRoot ==
    /\ pc = "iu_mount_root"
    /\ \/ /\ mounts' = Append(mounts, "root")
          /\ cmds' = Append(cmds, Cmd("mount", "root"))
          /\ pc' = "iu_extract"
          /\ exc' = exc
       \/ /\ Caught("mount_root")
          /\ UNCHANGED << mounts, cmds >>
    /\ UNCHANGED << argVars, poolVars, localVars, sentinels, upgradeData >>

\* Mount.__exit__: unmount when the path is still a mount point
MountExitWrong(m, x) == m
MountExit(m, x) == IF IsMount(m, x) THEN Umount(m, x) ELSE m
MountExitCmds(m, x) == IF IsMount(m, x) THEN << Cmd("umount", x) >> ELSE << >>

\* unsquashfs into the mounted root, then leaving the Mount scope (lines 330-346)
IU_Extract ==
    /\ pc = "iu_extract"
    /\ mounts' = MountExit(mounts, "root")
    /\ cmds' = cmds \o << Cmd("unsquashfs", "root") >> \o MountExitCmds(mounts, "root")
    /\ \/ /\ pc' = "iu_set_mountpoint"
          /\ exc' = exc
       \/ Caught("extract")
    /\ UNCHANGED << argVars, poolVars, localVars, sentinels, upgradeData >>

\* bootenv.set_props(mountpoint="/") (line 347)
IU_SetMountpoint ==
    /\ pc = "iu_set_mountpoint"
    /\ props' = [props EXCEPT ![bootenvName] = SetProp(@, "mountpoint", "/")]
    /\ cmds' = Append(cmds, Cmd("set mountpoint", bootenvName))
    /\ pc' = "iu_enter_be"
    /\ UNCHANGED << argVars, poolExists, imported, datasets, bootfs, keysource,
                    free_space, localVars, mounts, sentinels, upgradeData, exc >>

\* entering `with bootenv` (line 349): Dataset.__enter__, BootEnviroment.mount
\* and Dataset.mount; the first n mounts succeed, and when one fails the
\* exception leaves __enter__ with the earlier mounts in place
IU_EnterBE ==
    /\ pc = "iu_enter_be"
    /\ props' = [props EXCEPT ![bootenvName] =
                    DatasetMountProps(@, BEPath(bootenvName))]
    /\ LET order == BEMountOrder(uefi, keysource)
       IN  \E n \in 0..Len(order) :
           /\ mounts' = mounts \o SubSeq(order, 1, n)
           /\ cmds' = cmds \o << Cmd("set mountpoint", bootenvName) >>
                           \o CmdsOf("mount", SubSeq(order, 1, n))
           /\ IF n = Len(order)
              THEN /\ pc' = "iu_post_data"
                   /\ exc' = exc
              ELSE Caught("enter_be")
    /\ UNCHANGED << argVars, poolExists, imported, datasets, bootfs, keysource,
                    free_space, localVars, sentinels, upgradeData >>

\* an exception inside `with bootenv`: Dataset.__exit__ runs first
CaughtInBE(e) ==
    /\ pc' = "iu_exit_be"
    /\ exc' = e

\* the stamps the preserved data directory may hold under data/: rsync
\* copies `data` except FREENAS_DB, data/manifest.json and data/sentinels
\* (lines 366-379), and no stamp lies under data/sentinels (lines 33-36)
PreservedSentinels == {{}, {FIRST_INSTALL_SENTINEL}}

\* machine-id removal, preserved data or first-boot stamps (lines 357-400);
\* rsync runs with cwd=preserved_data, which fails when the directory is gone
IU_PostData ==
    /\ pc = "iu_post_data"
    /\ IF preserved_data
       THEN \E is_freebsd_upgrade \in BOOLEAN, copied \in PreservedSentinels :
            \/ /\ upgradeData
               /\ sentinels' = sentinels \cup copied \cup {NEED_UPDATE_SENTINEL} \cup
                       (IF is_freebsd_upgrade THEN {FREEBSD_UPDATE_SENTINEL} ELSE {})
               /\ setup_machine_id' = (is_freebsd_upgrade /\ ~ isFreeBSD)
               /\ configure_serial' = FALSE
               /\ cmds' = Append(cmds, Cmd("rsync", "root"))
               /\ pc' = "iu_machine_id"
               /\ exc' = exc
            \/ /\ CaughtInBE("rsync")
               /\ setup_machine_id' = (is_freebsd_upgrade /\ ~ isFreeBSD)
               /\ cmds' = Append(cmds, Cmd("rsync", "root"))
               /\ UNCHANGED << sentinels, configure_serial >>
       ELSE \E eula_accepted \in BOOLEAN :
            \/ /\ sentinels' = sentinels \cup {FIRST_INSTALL_SENTINEL} \cup
                       (IF eula_accepted THEN {} ELSE {TRUENAS_EULA_PENDING_SENTINEL})
               /\ setup_machine_id' = TRUE
               /\ configure_serial' = TRUE
               /\ cmds' = Append(cmds, Cmd("cp", "root"))
               /\ pc' = "iu_machine_id"
               /\ exc' = exc
            \/ /\ CaughtInBE("cp_hostid")
               /\ cmds' = Append(cmds, Cmd("cp", "root"))
               /\ UNCHANGED << sentinels, setup_machine_id, configure_serial >>
    /\ UNCHANGED << argVars, poolVars, manifest, update_mnt, bootenvName,
                    old_bootfs_prop, mounts, upgradeData >>

\* systemd-machine-id-setup when marked (lines 402-404); IS_FREEBSD skips
\* everything up to the end of the scope (lines 406-407)
IU_MachineId ==
    /\ pc = "iu_machine_id"
    /\ \/ /\ pc' = IF isFreeBSD THEN "iu_exit_be" ELSE "iu_post_conf"
          /\ exc' = exc
       \/ /\ setup_machine_id
          /\ CaughtInBE("machine_id")
    /\ cmds' = IF setup_machine_id
               THEN Append(cmds, Cmd("systemd-machine-id-setup", "root"))
               ELSE cmds
    /\ UNCHANGED << argVars, poolVars, localVars, mounts, sentinels, upgradeData >>

\* fstab, root password, sql, serial console (lines 409-427)
IU_PostConf ==
    /\ pc = "iu_post_conf"
    /\ \/ /\ pc' = "iu_bootfs"
          /\ exc' = exc
       \/ CaughtInBE("post_conf")
    /\ UNCHANGED << argVars, poolVars, localVars, mounts, cmds, sentinels,
                    upgradeData >>

\* self.boot_pool.set_props(bootfs=bootenv.name) (line 429)
IU_Bootfs ==
    /\ pc = "iu_bootfs"
    /\ bootfs' = PyStr(bootenvName)
    /\ cmds' = Append(cmds, Cmd("set bootfs", PyStr(bootenvName)))
    /\ pc' = "iu_initrd"
    /\ UNCHANGED << argVars, poolExists, imported, datasets, props, keysource,
                    free_space, localVars, mounts, sentinels, upgradeData, exc >>

\* truenas-initrd.py, check=False: fatal when the exit code exceeds 1 (430-438)
InitrdFatalWrong(returncode) == returncode > 0
InitrdFatal(returncode) == returncode > 1

\* the log keeps the exit code of the invocation as its argument
IU_Initrd ==
    /\ pc = "iu_initrd"
    /\ \E returncode \in RetCodes :
          /\ cmds' = Append(cmds, Cmd("truenas-initrd.py", ToString(returncode)))
          /\ IF InitrdFatal(returncode)
             THEN CaughtInBE("initrd")
             ELSE /\ pc' = "iu_keystore"
                  /\ exc' = exc
    /\ UNCHANGED << argVars, poolVars, localVars, mounts, sentinels, upgradeData >>

\* the keystore hook and update-initramfs (lines 439-453)
IU_Keystore ==
    /\ pc = "iu_keystore"
    /\ LET keystore == Keystore(keysource)
           _mnt == IF Truthy(keystore) /\ keystore \in datasets
                   THEN GetProp(props[keystore]["mountpoint"])
                   ELSE PyNone
       IN  IF Truthy(keystore) /\ Truthy(_mnt)
           THEN /\ cmds' = Append(cmds, Cmd("update-initramfs", "root"))
                /\ \/ /\ pc' = "iu_exit_be"
                      /\ exc' = exc
                   \/ CaughtInBE("update_initramfs")
           ELSE /\ cmds' = cmds
                /\ pc' = "iu_exit_be"
                /\ exc' = exc
    /\ UNCHANGED << argVars, poolVars, localVars, mounts, sentinels, upgradeData >>

\* Path(path).is_mount() for the mountpoint property of the boot environment
PathIsMount(m, path, name) == path = BEPath(name) /\ IsMount(m, "root")

\* leaving `with bootenv`: Dataset.__exit__ (zfs.py 84-87), BootEnviroment.unmount
\* (bootpool.py 124-133) and Dataset.unmount (zfs.py 75-79)
IU_ExitBE ==
    /\ pc = "iu_exit_be"
    /\ LET path == Mntpoint(props[bootenvName])
           order == BEUnmountOrder(mounts, uefi, keysource)
       IN  IF Truthy(path) /\ path # "legacy" /\ PathIsMount(mounts, path, bootenvName)
           THEN /\ mounts' = UmountAll(mounts, order)
                /\ cmds' = cmds \o CmdsOf("umount", order)
                /\ props' = [props EXCEPT ![bootenvName] = DatasetUnmountProps(@)]
           ELSE UNCHANGED << mounts, cmds, props >>
    /\ pc' = IF exc = "" THEN "iu_finally" ELSE "iu_except"
    /\ UNCHANGED << argVars, poolExists, imported, datasets, bootfs, keysource,
                    free_space, localVars, sentinels, upgradeData, exc >>

\* the handler's test `old_bootfs_prop != "-"` (line 455)
RestoresBootfs(old) == old # "-"

\* except Exception: restore bootfs, destroy the new dataset, re-raise
\* (lines 454-459).  zpool may refuse a bootfs value that names no dataset
\* of the pool; set_props is checked, so the refusal is raised from inside
\* the handler, in place of the original exception, and the destroy is skipped
IU_Except ==
    /\ pc = "iu_except"
    /\ \E accepted \in BOOLEAN :
          /\ accepted \/ (RestoresBootfs(old_bootfs_prop)
                          /\ PyStr(old_bootfs_prop) \notin datasets)
          /\ IF accepted
             THEN /\ bootfs' = IF RestoresBootfs(old_bootfs_prop)
                               THEN PyStr(old_bootfs_prop) ELSE bootfs
                  /\ datasets' = IF cleanup THEN datasets \ {bootenvName} ELSE datasets
                  /\ cmds' = cmds \o
                       (IF RestoresBootfs(old_bootfs_prop)
                        THEN << Cmd("set bootfs", PyStr(old_bootfs_prop)) >>
                        ELSE << >>) \o
                       (IF cleanup THEN << Cmd("destroy", bootenvName) >> ELSE << >>)
                  /\ exc' = exc
             ELSE /\ cmds' = Append(cmds, Cmd("set bootfs", PyStr(old_bootfs_prop)))
                  /\ exc' = "set_bootfs"
                  /\ UNCHANGED << bootfs, datasets >>
    /\ props' = [d \in datasets' |-> props[d]]
    /\ pc' = "iu_finally"
    /\ UNCHANGED << argVars, poolExists, imported, keysource, free_space,
                    localVars, mounts, sentinels, upgradeData >>

\* finally: unmount the image when it was mounted (lines 460-462), then
\* return to the caller or propagate the exception
IU_Finally ==
    /\ pc = "iu_finally"
    /\ IF update_mnt
       THEN /\ mounts' = Umount(mounts, "update")
            /\ cmds' = Append(cmds, Cmd("umount", "update"))
       ELSE UNCHANGED << mounts, cmds >>
    /\ pc' = IF exc # "" THEN "raised"
             ELSE IF entry = "install" THEN InstallNext("install_update") ELSE "done"
    /\ UNCHANGED << argVars, poolVars, localVars, sentinels, upgradeData, exc >>

InstallUpdate ==
    \/ IU_Source \/ IU_Manifest \/ IU_Space \/ IU_Name \/ IU_Create
    \/ IU_MountRoot \/ IU_Extract \/ IU_SetMountpoint \/ IU_EnterBE
    \/ IU_PostData \/ IU_MachineId \/ IU_PostConf \/ IU_Bootfs \/ IU_Initrd
    \/ IU_Keystore \/ IU_ExitBE \/ IU_Except \/ IU_Finally

---------------------------------------------------------------------------
(* TrueNASInstaller.install (src/__init__.py 243-279) *)

\* last path segments of the boot environments the model can hold
Segments ==
    Versions \cup {"21.08"} \cup
    {v \o "-" \o ToString(k) : v \in Versions, k \in 1..(MaxSuffix + 1)}

\* bootfs.split("/")[-1] for a name under <pool>/ROOT, else the name itself
LastSegment(value) ==
    IF \E x \in Segments : value = EnvName(x)
    THEN CHOOSE x \in Segments : value = EnvName(x)
    ELSE value

\* BootPool.bootfs: the boot environment the bootfs property names
BootfsEnv(value) == EnvName(LastSegment(value))

\* cleanup(): best-effort export of old_pool and boot_pool (lines 243-250)
I_Cleanup ==
    /\ pc = "i_cleanup"
    /\ imported' = FALSE
    /\ cmds' = cmds \o << Cmd("export", BOOT_POOL), Cmd("export", BOOT_POOL) >>
    /\ pc' = "i_rmtree"
    /\ UNCHANGED << argVars, poolExists, datasets, props, bootfs, keysource,
                    free_space, localVars, mounts, sentinels, upgradeData, exc >>

\* shutil.rmtree(UPGRADE_DATA) unless upgrading (lines 252-259)
I_Rmtree ==
    /\ pc = "i_rmtree"
    /\ upgradeData' = IF upgrade THEN upgradeData ELSE FALSE
    /\ pc' = IF upgrade_type = "inplace" THEN "i_import" ELSE "i_partitions"
    /\ UNCHANGED << argVars, poolVars, localVars, mounts, cmds, sentinels, exc >>

\* self.boot_pool.import_(True, False), checked (line 260)
I_ImportUnchecked ==
    /\ pc = "i_import"
    /\ cmds' = Append(cmds, Cmd("import", BOOT_POOL))
    /\ \E ok \in BOOLEAN : imported' = (ok /\ poolExists)
    /\ pc' = InstallNext("import")
    /\ UNCHANGED << argVars, poolExists, datasets, props, bootfs, keysource,
                    free_space, localVars, mounts, sentinels, upgradeData, exc >>
I_Import ==
    /\ pc = "i_import"
    /\ cmds' = Append(cmds, Cmd("import", BOOT_POOL))
    /\ \/ /\ poolExists
          /\ imported' = TRUE
          /\ pc' = InstallNext("import")
          /\ exc' = exc
       \/ /\ Raised("import")
          /\ imported' = imported
    /\ UNCHANGED << argVars, poolExists, datasets, props, bootfs, keysource,
                    free_space, localVars, mounts, sentinels, upgradeData >>

\* create_partitions(wipe) (lines 79-155): the existing pool is imported and
\* destroyed (both unchecked), then every disk is wiped when asked and
\* partitioned; control goes to succ unless an invocation or the size check
\* raises
CreatePartitions(succ) ==
    /\ poolExists' = FALSE
    /\ imported' = FALSE
    /\ datasets' = {}
    /\ props' = PropsOf({})
    /\ bootfs' = Unset
    /\ keysource' = Unset
    /\ \E ok \in BOOLEAN :
          LET r == PlanDisks(disks, 1, wipe, swap, boot_size, ok)
          IN  /\ disks' = r.disks
              /\ cmds' = cmds \o << Cmd("import", BOOT_POOL), Cmd("destroy", BOOT_POOL) >>
                              \o r.cmds
              /\ IF r.err = ""
                 THEN /\ pc' = succ
                      /\ exc' = exc
                 ELSE Raised(r.err)

\* self.create_partitions(True) in install() (line 266)
I_Partitions ==
    /\ pc = "i_partitions"
    /\ CreatePartitions("i_bootpool")
    /\ UNCHANGED << cfgVars, free_space, localVars, mounts, sentinels, upgradeData >>

\* `return True` (line 268): install() is over
FormatReturnWrong == "iu_src"
FormatReturn == "done"

\* create_bootpool() (lines 157-190; BootPool.create, bootpool.py 21-80, with
\* no encryption and no keystore), then `return True` (line 268)
I_Bootpool ==
    /\ pc = "i_bootpool"
    /\ cmds' = Append(cmds, Cmd("zpool create", BOOT_POOL))
    /\ \/ /\ poolExists' = TRUE
          /\ imported' = TRUE
          /\ datasets' = {BOOT_POOL, RootDataset}
          /\ props' = PropsOf({BOOT_POOL, RootDataset})
          /\ pc' = FormatReturn
          /\ exc' = exc
       \/ /\ Raised("zpool_create")
          /\ UNCHANGED << poolExists, imported, datasets, props >>
    /\ UNCHANGED << argVars, bootfs, keysource, free_space, localVars, mounts,
                    sentinels, upgradeData >>

\* install_bootloader (lines 192-241): the environment bootfs names is
\* mounted, the bootloader written to the disks, the environment unmounted
I_Bootloader ==
    /\ pc = "i_bootloader"
    /\ LET value == GetProp(bootfs)
           name == BootfsEnv(value)
           order == BEMountOrder(uefi, keysource)
           mounted == mounts \o order
           undo == BEUnmountOrder(mounted, uefi, keysource)
       IN  IF ~ Truthy(value) \/ name \notin datasets
           THEN /\ Raised("no_bootfs")
                /\ UNCHANGED << props, cmds >>
           ELSE /\ props' = [props EXCEPT ![name] =
                               DatasetUnmountProps(DatasetMountProps(@, BEPath(name)))]
                /\ cmds' = cmds \o CmdsOf("mount", order)
                                \o << Cmd("bootloader", "disks") >>
                                \o CmdsOf("umount", undo)
                /\ \/ /\ pc' = InstallNext("bootloader")
                      /\ exc' = exc
                   \/ Raised("bootloader")
    /\ UNCHANGED << argVars, poolExists, imported, datasets, bootfs, keysource,
                    free_space, localVars, mounts, sentinels, upgradeData >>

\* self.boot_pool.export(), checked (line 273)
I_Export ==
    /\ pc = "i_export"
    /\ cmds' = Append(cmds, Cmd("export", BOOT_POOL))
    /\ \/ /\ imported' = FALSE
          /\ pc' = InstallNext("export")
          /\ exc' = exc
       \/ /\ Raised("export")
          /\ imported' = imported
    /\ UNCHANGED << argVars, poolExists, datasets, props, bootfs, keysource,
                    free_space, localVars, mounts, sentinels, upgradeData >>

Install ==
    \/ I_Cleanup \/ I_Rmtree \/ I_Import \/ I_Partitions \/ I_Bootpool
    \/ I_Bootloader \/ I_Export

Next == Install \/ InstallUpdate

Spec == Init /\ [][Next]_vars

\* 8 GiB, in KiB
EightGiB == 8 * GiB

\* the pool-creation invocation has been issued
PoolCreationIssued ==
    \E i \in 1..Len(cmds) : cmds[i] = Cmd("zpool create", BOOT_POOL)

\* C14: whenever install() has issued the pool creation, every disk with the
\* pool-member role has a pool-member partition of at least 8 GiB; a smaller
\* partition makes the installation fail before any pool is created.
C14_MinPoolPartition ==
    (entry = "install" /\ PoolCreationIssued) =>
        \A i \in 1..Len(disks) :
            InUse(UseBootPool, disks[i].use) => disks[i].parts[ZFS] >= EightGiB

---------------------------------------------------------------------------
(* Properties of install and install_update, checked under Spec *)

\* install_update has been left, by return or by exception
IUExited == pc \in {"raised", "done", "i_bootloader", "i_export"}

\* failures of the image extraction and of the post-install steps
PopulationFailures ==
    {"extract", "rsync", "cp_hostid", "machine_id", "post_conf", "initrd",
     "update_initramfs"}

\* the new dataset has been created by this call
Created == \E i \in 1..Len(cmds) : cmds[i] = Cmd("create", bootenvName)

\* C1: after install_update (cleanup enabled) raises for a failure of the
\* extraction or of a post-install step, bootfs has its value from before the
\* call and the dataset this call created does not exist.
C1_RollbackInvariant ==
    (pc = "raised" /\ exc \in PopulationFailures /\ cleanup)
        => (bootfs = pre.bootfs /\ bootenvName \notin datasets)

\* population of the new environment has fully succeeded: the image is
\* extracted and every post-install step up to the keystore hook is done
Populated ==
    exc = "" /\ pc \in {"iu_exit_be", "iu_finally", "i_bootloader", "i_export", "done"}

\* C2: in every state bootfs names the newly created boot environment only
\* if its population has fully succeeded.
C2_BootfsOnlyAfterPopulation ==
    (bootenvName # "" /\ bootfs = bootenvName) => Populated

\* C3: when install() raises and an environment was bootable before the
\* run, that environment still exists and bootfs still names it.
C3_FailedInstallKeepsBootable ==
    (entry = "install" /\ pc = "raised" /\ Truthy(GetProp(pre.bootfs)))
        => (poolExists /\ pre.bootfs \in datasets /\ bootfs = pre.bootfs)

\* the handler of install_update (lines 454-459) has run: something failed
\* inside the try block, after the new dataset was created
HandlerRan ==
    /\ Created
    /\ pc \in {"iu_finally", "raised"}
    /\ exc \notin {"", "no_bootfs", "bootloader", "export"}

\* failures raised inside install_update's try block (lines 327-453)
TryFailures == PopulationFailures \cup {"mount_root", "enter_be"}

\* C15: when bootfs was unset before install_update and something fails
\* inside the try block, the rollback issues no set of bootfs, destroys the
\* new dataset when cleanup is enabled, and re-raises the original failure.
C15_NoRestoreOfUnsetBootfs ==
    (HandlerRan /\ GetProp(pre.bootfs) = PyNone) =>
        /\ \A i \in 1..Len(cmds) :
              cmds[i].op = "set bootfs" => cmds[i].arg = bootenvName
        /\ cleanup => (bootenvName \notin datasets
                       /\ \E i \in 1..Len(cmds) : cmds[i] = Cmd("destroy", bootenvName))
        /\ exc \in TryFailures

\* C16: when install_update(cleanup=False) fails inside the try block, the
\* new dataset is kept and no destroy is issued for it, bootfs has its value
\* from before the call, and the failure is re-raised.
C16_KeepDatasetWithoutCleanup ==
    (HandlerRan /\ ~ cleanup) =>
        /\ bootenvName \in datasets
        /\ \A i \in 1..Len(cmds) : cmds[i] # Cmd("destroy", bootenvName)
        /\ bootfs = pre.bootfs
        /\ exc \in TryFailures

\* what BootEnviroment.mount mounts: the root, the auxiliary mounts, the keystore
BEMounts == {"root", "dev", "proc", "sys", "efivars", "keystore"}

\* C17: after install_update has raised for a failure inside the try block,
\* nothing of the new boot environment is mounted and bootfs does not name it.
C17_FailedEnvReleased ==
    (HandlerRan /\ pc = "raised") =>
        /\ \A x \in BEMounts : ~ IsMount(mounts, x)
        /\ bootfs # bootenvName

\* install_update has returned without raising
IUReturned == Created /\ exc = "" /\ pc \in {"done", "i_bootloader"}

\* C18: after install_update returns without raising, bootfs names the new
\* boot environment, whose mountpoint property reads / and which is not mounted.
C18_Committed ==
    IUReturned =>
        /\ bootfs = bootenvName
        /\ GetProp(props[bootenvName]["mountpoint"]) = "/"
        /\ \A x \in BEMounts : ~ IsMount(mounts, x)

\* C26: an exit code of truenas-initrd.py above 1 is fatal: the exception is
\* raised, the handler runs (the new dataset is destroyed under cleanup) and
\* install_update does not return normally; with exit code 0 or 1 nothing
\* is raised and the next step is the keystore step.
C26_InitrdExitCode ==
    \A i \in 1..Len(cmds) :
       cmds[i].op = "truenas-initrd.py" =>
          IF cmds[i].arg \in {"0", "1"}
          THEN /\ exc # "initrd"
               /\ i = Len(cmds) => (exc = "" /\ pc \in {"iu_keystore", "iu_exit_be"})
          ELSE /\ exc \in {"initrd", "set_bootfs"}
               /\ pc \in {"iu_exit_be", "iu_except", "iu_finally", "raised"}
               /\ pc \in {"iu_finally", "raised"} => HandlerRan
               /\ (pc = "raised" /\ cleanup /\ exc = "initrd") =>
                     /\ bootenvName \notin datasets
                     /\ \E j \in (i + 1)..Len(cmds) : cmds[j].op = "destroy"

\* C26 witness: truenas-initrd.py has left with exit code 1 and the keystore
\* step is next
C26_Witness ==
    /\ pc = "iu_keystore"
    /\ Len(cmds) > 0
    /\ cmds[Len(cmds)] = Cmd("truenas-initrd.py", "1")

\* C36: when install() is called with upgrade=False, the staged directory is
\* gone before the critical section, install_update copies no preserved data
\* and, when it returns, has stamped first-boot and not need-update.
C36_NoMigrationWithoutUpgrade ==
    (entry = "install" /\ ~ upgrade) =>
        /\ pc \notin {"i_cleanup", "i_rmtree"} => ~ upgradeData
        /\ \A i \in 1..Len(cmds) : cmds[i].op # "rsync"
        /\ IUReturned =>
              /\ FIRST_INSTALL_SENTINEL \in sentinels
              /\ NEED_UPDATE_SENTINEL \notin sentinels

\* C39: on every failing path of install_update the rollback's destroy of the
\* new dataset is issued only after every mount inside it (root, dev, proc,
\* sys, efivars, keystore) has been released: from the destroy on, nothing of
\* the environment is mounted
C39_DestroyAfterUnmount ==
    (entry = "install_update" /\ Cmd("destroy", bootenvName) \in Range(cmds))
        => \A i \in 1..Len(mounts) :
              mounts[i] \notin {"root", "dev", "proc", "sys", "efivars", "keystore"}

\* C38: install_update destroys no dataset that existed before the call and
\* changes no property of one, whatever the outcome: the only dataset it
\* creates, modifies or destroys is the one it created.
C38_ExistingDatasetsUntouched ==
    entry = "install_update" =>
        /\ \A d \in pre.datasets : d \in datasets /\ props[d] = pre.props[d]
        /\ datasets \ pre.datasets \subseteq {bootenvName}
        /\ \A i \in 1..Len(cmds) :
              cmds[i].op \in {"create", "destroy"} =>
                 (cmds[i].arg = bootenvName /\ bootenvName \notin pre.datasets)

\* C38 witness: the pool held other boot environments, install_update failed
\* after creating its own, and the rollback has destroyed that one only
C38_Witness ==
    /\ entry = "install_update"
    /\ pc = "raised"
    /\ Created
    /\ cleanup
    /\ exc = "initrd"
    /\ Cardinality(pre.datasets) >= 4
    /\ datasets = pre.datasets
    /\ Cmd("destroy", bootenvName) \in Range(cmds)

\* C30: after install_update returns without raising into an image without
\* stamps, need-update exists exactly when preserved data was supplied and
\* first-boot exactly when it was not, and the cross-platform stamp exists
\* only with preserved data.
C30_Sentinels ==
    IUReturned =>
        /\ (NEED_UPDATE_SENTINEL \in sentinels) <=> preserved_data
        /\ (FIRST_INSTALL_SENTINEL \in sentinels) <=> ~ preserved_data
        /\ (FREEBSD_UPDATE_SENTINEL \in sentinels) => preserved_data

\* the operations of the invocations issued on the disk, in order
DiskOps(name) ==
    LET sel == SelectSeq(cmds, LAMBDA c : c.arg = name)
    IN  [i \in 1..Len(sel) |-> sel[i].op]

\* the partitions create_partitions creates on a blank disk, in order
Creations(use, sw) ==
    (IF InUse(UseBootloader, use)
     THEN << "sgdisk --new " \o BIOS, "sgdisk --new " \o EFI >> ELSE << >>) \o
    (IF InUse(UseBootPool, use) /\ sw
     THEN << "sgdisk --new " \o LinuxSwap, "wipefs" >> ELSE << >>) \o
    (IF InUse(UseBootPool, use) THEN << "sgdisk --new " \o ZFS >> ELSE << >>)

\* C21: in format mode install() wipes and partitions every disk, then
\* creates the pool and returns: the pool creation is the last invocation,
\* and nothing of install_update, of the bootloader installation or of the
\* final export is ever executed.
C21_FormatMode ==
    (entry = "install" /\ upgrade_type = "format") =>
        /\ pc \in {"i_cleanup", "i_rmtree", "i_partitions", "i_bootpool", "done", "raised"}
        /\ \A i \in 1..Len(cmds) :
              /\ cmds[i].op \notin {"create", "unsquashfs", "bootloader", "set bootfs", "mount"}
              /\ cmds[i].op = "export" => i <= 2
              /\ cmds[i].op = "zpool create" => i = Len(cmds)
        /\ PoolCreationIssued =>
              \A k \in 1..Len(disks) :
                 DiskOps(disks[k].name) = << "sgdisk -Z" >> \o Creations(disks[k].use, swap)
        /\ pc = "done" => (PoolCreationIssued /\ poolExists /\ bootenvName = "")

\* C21 witness: install() has returned in format mode on two disks
C21_Witness ==
    /\ entry = "install"
    /\ upgrade_type = "format"
    /\ pc = "done"
    /\ Len(disks) = 2
    /\ PoolCreationIssued

\* the last invocation issued is the import of the pool
ImportIsLast == Len(cmds) > 0 /\ cmds[Len(cmds)] = Cmd("import", BOOT_POOL)

\* C19: in in-place mode a failed import of the pool makes install() raise,
\* and nothing later is executed: no dataset created, bootfs not modified, no
\* bootloader installed, no partition table or pool wiped or created.
C19_ImportFailureIsFatal ==
    /\ (entry = "install" /\ upgrade_type = "inplace" /\ ImportIsLast /\ ~ imported)
           => (pc = "raised" /\ exc = "import")
    /\ exc = "import" =>
           /\ pc = "raised"
           /\ datasets = pre.datasets
           /\ props = pre.props
           /\ bootfs = pre.bootfs
           /\ disks = pre.disks
           /\ poolExists = pre.poolExists
           /\ \A i \in 1..Len(cmds) : cmds[i].op \in {"export", "import"}

\* C19 witness: install() in in-place mode has raised for the failed import
C19_Witness ==
    /\ entry = "install"
    /\ upgrade_type = "inplace"
    /\ pc = "raised"
    /\ exc = "import"
    /\ ImportIsLast

\* the pool operations and the bootloader installation issued so far, in order
PoolOps ==
    LET sel == SelectSeq(cmds, LAMBDA c :
                   c.op \in {"export", "import", "create", "bootloader"})
    IN  [i \in 1..Len(sel) |-> sel[i].op]

\* C20: an in-place install() that returns has issued, in this order, the
\* best-effort exports, the import, install_update's dataset creation, the
\* bootloader installation and the export; the export is the last invocation
\* and the pool ends exported.
C20_InPlaceOrder ==
    (entry = "install" /\ upgrade_type = "inplace" /\ pc = "done") =>
        /\ PoolOps = << "export", "export", "import", "create", "bootloader", "export" >>
        /\ cmds[Len(cmds)] = Cmd("export", BOOT_POOL)
        /\ ~ imported

\* C20 witness: an in-place install() has returned
C20_Witness ==
    /\ entry = "install"
    /\ upgrade_type = "inplace"
    /\ pc = "done"
    /\ bootfs = bootenvName
    /\ ~ imported

\* the space check of install_update has been executed
SpaceChecked == manifest # NoManifest /\ pc # "iu_space"

C7_LoopbackAlwaysUnmounted ==
    IUExited => ~ IsMount(mounts, "update")

\* the name X-k
Suffixed(name, k) == name \o "-" \o ToString(k)

\* C8: the created boot environment is named X when X is unused, otherwise
\* X-k for the smallest k >= 1 with X-k unused; it is never an existing name.
C8_CollisionFreeNaming ==
    Created =>
        LET X == EnvName(manifest.version)
            existing == pre.datasets
        IN  /\ bootenvName \notin existing
            /\ X \notin existing => bootenvName = X
            /\ X \in existing =>
                 \E k \in 1..(Cardinality(existing) + 1) :
                    /\ bootenvName = Suffixed(X, k)
                    /\ \A j \in 1..(k - 1) : Suffixed(X, j) \in existing

\* C8 witness: X and X-1 exist and the environment is created as X-2
C8_Witness ==
    LET X == EnvName(manifest.version)
    IN  /\ Created
        /\ {X, Suffixed(X, 1)} \subseteq pre.datasets
        /\ bootenvName = Suffixed(X, 2)

---------------------------------------------------------------------------
(* Dataset.mount / Dataset.unmount on one dataset (src/zfs.py 60-79) *)

\* the dataset under test
DS == OldEnv

\* values of the permanent mountpoint property
Mountpoints == {"/", "legacy", "/mnt/a"}

\* paths given to mount(); None stands for the default /mnt/<name>
MountArgs == {"/mnt/a", "/mnt/b", PyNone}

\* Path(path or f"/mnt/{self.name}") (zfs.py line 68)
MountTarget(path, name) == IF Truthy(path) THEN path ELSE "/mnt/" \o name

\* the variables the mount specifications do not use
Unused ==
    /\ upgrade_type = "inplace"
    /\ upgrade = FALSE
    /\ cleanup = TRUE
    /\ preserved_data = FALSE
    /\ srcIsFile = FALSE
    /\ isFreeBSD = FALSE
    /\ poolExists = TRUE
    /\ imported = TRUE
    /\ bootfs = Unset
    /\ free_space = MaxSize
    /\ manifest = NoManifest
    /\ update_mnt = FALSE
    /\ bootenvName = ""
    /\ old_bootfs_prop = PyNone
    /\ setup_machine_id = FALSE
    /\ configure_serial = FALSE
    /\ sentinels = {}
    /\ upgradeData = FALSE
    /\ exc = ""
    /\ calls = 0
    /\ got = PyNone
    /\ builder = NewBuilder(TRUE, FALSE)
    /\ options = NoOptions
    /\ format_efi = FALSE
    /\ todo = {}
    /\ partition = PyNone
    /\ unsq = NoUnsq
    /\ mounts = << >>
    /\ cmds = << >>

\* no disk is given to the installer
NoDisks ==
    /\ disks = << >>
    /\ swap = FALSE
    /\ boot_size = 0
    /\ wipe = FALSE

unusedVars == << entry, upgrade_type, upgrade, cleanup, preserved_data, srcIsFile,
                 isFreeBSD, poolExists, imported, datasets, bootfs,
                 free_space, manifest, update_mnt, bootenvName, old_bootfs_prop,
                 setup_machine_id, configure_serial, sentinels, upgradeData,
                 got, builder, options, disks, swap, boot_size, wipe, format_efi, todo, partition, unsq, pre >>

\* a dataset with any permanent mountpoint; orig_mountpoint and orig_mntpoint
\* are as an earlier mount/unmount of the dataset left them, or never set
InitDS ==
    /\ entry = "dataset"
    /\ pc = "ds"
    /\ uefi = FALSE
    /\ keysource = Unset
    /\ datasets = {DS}
    /\ \E P \in Mountpoints, O \in {Unset} \cup Mountpoints :
          props = [d \in {DS} |->
                     [NoProps EXCEPT !["mountpoint"] = P,
                                     !["orig_mountpoint"] = O,
                                     !["orig_mntpoint"] = IF O = Unset THEN Unset ELSE ""]]
    /\ Unused
    /\ NoDisks
    /\ pre = Snapshot

\* Dataset.mount(path): set the properties, then `zfs mount`, which fails
\* when the dataset is already mounted
DS_Mount ==
    /\ pc = "ds"
    /\ calls < MaxCalls
    /\ \E path \in MountArgs :
          LET mountpoint == MountTarget(path, DS)
          IN  /\ props' = [props EXCEPT ![DS] = DatasetMountProps(@, mountpoint)]
              /\ cmds' = Append(cmds, Cmd("mount", mountpoint))
    /\ IF IsMount(mounts, DS)
       THEN /\ exc' = "mount"
            /\ mounts' = mounts
       ELSE /\ exc' = ""
            /\ mounts' = Append(mounts, DS)
    /\ calls' = calls + 1
    /\ UNCHANGED << pc, uefi, keysource, unusedVars >>

\* Dataset.unmount(check): `zfs unmount`, which fails when the dataset is not
\* mounted (raising when checked), then the restore of the mountpoint
DS_Unmount ==
    /\ pc = "ds"
    /\ calls < MaxCalls
    /\ \E check \in BOOLEAN :
          IF ~ IsMount(mounts, DS) /\ check
          THEN /\ exc' = "unmount"
               /\ UNCHANGED << mounts, props >>
          ELSE /\ exc' = ""
               /\ mounts' = Umount(mounts, DS)
               /\ props' = [props EXCEPT ![DS] = DatasetUnmountProps(@)]
    /\ cmds' = Append(cmds, Cmd("unmount", DS))
    /\ calls' = calls + 1
    /\ UNCHANGED << pc, uefi, keysource, unusedVars >>

NextDS == DS_Mount \/ DS_Unmount

SpecDS == InitDS /\ [][NextDS]_vars

\* one mount(T) followed by one unmount(), both without error
OneCycle(T) == cmds = << Cmd("mount", T), Cmd("unmount", DS) >> /\ exc = ""

\* C9: for a dataset whose permanent mountpoint is P, mount(T) with T # P
\* followed by unmount() leaves the mountpoint property equal to P.
C9_MountpointRestore ==
    \A path \in MountArgs :
        LET T == MountTarget(path, DS)
            P == pre.props[DS]["mountpoint"]
        IN  (OneCycle(T) /\ T # P) => props[DS]["mountpoint"] = P

\* C9 witness: a dataset with mountpoint / was mounted at /mnt/b and unmounted
C9_Witness ==
    /\ OneCycle("/mnt/b")
    /\ pre.props[DS]["mountpoint"] = "/"
    /\ props[DS]["mountpoint"] = "/"

\* C10: after mount(T) followed by unmount() the marker property
\* orig_mountpoint is absent on the dataset.
C10_MarkerCleared ==
    \A path \in MountArgs :
        OneCycle(MountTarget(path, DS))
            => GetProp(props[DS]["orig_mountpoint"]) = PyNone

\* C37: after any number n >= 1 of consecutive mount calls followed by one
\* unmount that raises nothing, the mountpoint property has the value it had
\* before the first mount.
C37_RepeatedMountRestore ==
    (/\ Len(cmds) >= 2
     /\ cmds[Len(cmds)].op = "unmount"
     /\ \A i \in 1..(Len(cmds) - 1) : cmds[i].op = "mount"
     /\ exc = "")
    => props[DS]["mountpoint"] = pre.props[DS]["mountpoint"]

---------------------------------------------------------------------------
(* BootEnviroment.mount / BootEnviroment.unmount (src/bootpool.py 88-133) *)

\* a boot environment of a pool with or without a keystore, on a system
\* booted with or without UEFI
InitBE ==
    /\ entry = "bootenv"
    /\ pc = "be_unmounted"
    /\ uefi \in BOOLEAN
    /\ keysource \in {Unset, "", KeystoreDataset}
    /\ datasets = {BOOT_POOL, RootDataset, DS} \cup
                  (IF keysource = KeystoreDataset THEN {KeystoreDataset} ELSE {})
    /\ \E P \in {"/", "legacy"} :
          props = [PropsOf(datasets) EXCEPT ![DS]["mountpoint"] = P]
    /\ Unused
    /\ NoDisks
    /\ pre = Snapshot

\* BootEnviroment.mount(path)
BE_Mount ==
    /\ pc = "be_unmounted"
    /\ calls < MaxCalls
    /\ \E path \in MountArgs :
          props' = [props EXCEPT ![DS] =
                      DatasetMountProps(@, IF Truthy(path) THEN path ELSE BEPath(DS))]
    /\ LET order == BEMountOrder(uefi, keysource)
       IN  /\ mounts' = mounts \o order
           /\ cmds' = cmds \o CmdsOf("mount", order)
    /\ pc' = "be_mounted"
    /\ calls' = calls + 1
    /\ UNCHANGED << exc, uefi, keysource, unusedVars >>

\* BootEnviroment.unmount(path): the keystore the property names now is
\* unmounted first, checked, and `zfs unmount` fails on a dataset that is not
\* mounted
BE_Unmount ==
    /\ pc = "be_mounted"
    /\ calls < MaxCalls
    /\ LET order == BEUnmountOrder(mounts, uefi, keysource)
       IN  IF Head(order) = "keystore" /\ ~ IsMount(mounts, "keystore")
           THEN /\ cmds' = Append(cmds, Cmd("umount", "keystore"))
                /\ exc' = "unmount_keystore"
                /\ UNCHANGED << mounts, props, pc >>
           ELSE /\ mounts' = UmountAll(mounts, order)
                /\ cmds' = cmds \o CmdsOf("umount", order)
                /\ props' = [props EXCEPT ![DS] = DatasetUnmountProps(@)]
                /\ pc' = "be_unmounted"
                /\ exc' = exc
    /\ calls' = calls + 1
    /\ UNCHANGED << uefi, keysource, unusedVars >>

NextBE == BE_Mount \/ BE_Unmount

SpecBE == InitBE /\ [][NextBE]_vars

\* the keysource property of the pool is set or cleared by somebody else
\* (zroot.set_props("org.zfsbootmenu:keysource", ...), bootpool.py line 74)
BE_SetKeysource ==
    /\ calls < MaxCalls
    /\ keysource' \in {Unset, KeystoreDataset} \ {keysource}
    /\ calls' = calls + 1
    /\ UNCHANGED << pc, exc, uefi, mounts, cmds, props, unusedVars >>

NextBEK == NextBE \/ BE_SetKeysource

\* boot environments of a pool whose keysource property changes
SpecBEK == InitBE /\ [][NextBEK]_vars

\* what the invocations with operation op were applied to, in order
ArgsOf(op) ==
    LET sel == SelectSeq(cmds, LAMBDA c : c.op = op)
    IN  [i \in 1..Len(sel) |-> sel[i].arg]

Reverse(s) == [i \in 1..Len(s) |-> s[Len(s) + 1 - i]]

\* C4: after mount() followed by unmount() the unmounts are the mounts in
\* exactly the reverse order, and nothing is left mounted.
C4_MountSymmetry ==
    (pc = "be_unmounted" /\ calls = 2)
        => (ArgsOf("umount") = Reverse(ArgsOf("mount")) /\ mounts = << >>)

\* a keystore is associated with the pool
HasKeystore == keysource \notin {Unset, ""}

\* C5: mount() mounts the root dataset first, then dev, proc, sys, then
\* efivars iff UEFI-booted, then the keystore iff the pool has one.
C5_MountOrder ==
    pc = "be_mounted" =>
        LET expected == << "root", "dev", "proc", "sys" >> \o
                        (IF uefi THEN << "efivars" >> ELSE << >>) \o
                        (IF HasKeystore THEN << "keystore" >> ELSE << >>)
        IN  /\ mounts = expected
            /\ Len(cmds) >= Len(expected)
            /\ SubSeq(ArgsOf("mount"), Len(ArgsOf("mount")) - Len(expected) + 1,
                      Len(ArgsOf("mount"))) = expected
            /\ \A i \in 1..Len(expected) :
                  cmds[Len(cmds) - Len(expected) + i] = Cmd("mount", expected[i])

\* C31: unmount() issues the unmount of the keystore exactly when the
\* keysource property names a keystore at the time of the call, whatever it
\* named when the boot environment was mounted.
C31_KeystoreReadAtUnmount ==
    [][BE_Unmount =>
          LET new == SubSeq(cmds', Len(cmds) + 1, Len(cmds'))
          IN  (Cmd("umount", "keystore") \in Range(new)) <=> HasKeystore]_vars

\* C31 witness: the keystore was mounted with the boot environment, the
\* property was cleared, and unmount() has left the keystore alone
C31_Witness ==
    /\ pc = "be_unmounted"
    /\ ~ HasKeystore
    /\ cmds # << >>
    /\ cmds[Len(cmds)] = Cmd("umount", "root")
    /\ Cmd("mount", "keystore") \in Range(cmds)
    /\ Cmd("umount", "keystore") \notin Range(cmds)

\* C5 witness: mounted on a UEFI-booted system with a keystore
C5_Witness ==
    /\ pc = "be_mounted"
    /\ uefi
    /\ HasKeystore
    /\ mounts = << "root", "dev", "proc", "sys", "efivars", "keystore" >>

---------------------------------------------------------------------------
(* ZfsContainer.set_props / ZfsContainer.get_prop (src/zfs.py 24-39) *)

\* the values given to set_props
PropValues == {"/mnt/a", "legacy", "", "-"} \cup Padded

\* a dataset none of whose properties was set
InitProp ==
    /\ entry = "container"
    /\ pc = "props"
    /\ uefi = FALSE
    /\ keysource = Unset
    /\ datasets = {DS}
    /\ props = [d \in {DS} |-> NoProps]
    /\ Unused
    /\ NoDisks
    /\ pre = Snapshot

\* set_props(**{prop: value}): `set prop=value name`
P_Set ==
    /\ pc = "props"
    /\ calls < MaxPropCalls
    /\ \E prop \in PropNames, value \in PropValues :
          /\ props' = [props EXCEPT ![DS] = SetProp(@, prop, value)]
          /\ cmds' = Append(cmds, Cmd("set", << prop, value >>))
    /\ calls' = calls + 1
    /\ UNCHANGED << pc, exc, mounts, uefi, keysource, unusedVars >>

\* get_prop(prop): `get -H -o value -p prop name`
P_Get ==
    /\ pc = "props"
    /\ calls < MaxPropCalls
    /\ \E prop \in PropNames :
          /\ got' = GetProp(props[DS][prop])
          /\ cmds' = Append(cmds, Cmd("get", << prop >>))
    /\ calls' = calls + 1
    /\ UNCHANGED << pc, exc, mounts, props, uefi, keysource, entry, upgrade_type,
                    upgrade, cleanup, preserved_data, srcIsFile, isFreeBSD,
                    poolExists, imported, datasets, bootfs, free_space, manifest,
                    update_mnt, bootenvName, old_bootfs_prop, setup_machine_id,
                    configure_serial, sentinels, upgradeData, builder, options,
                    disks, swap, boot_size, wipe, format_efi, todo, partition, unsq, pre >>

NextProp == P_Set \/ P_Get

SpecProp == InitProp /\ [][NextProp]_vars

\* the last two calls were set_props(prop=value) and get_prop(prop)
RoundTrip(value) ==
    /\ Len(cmds) >= 2
    /\ cmds[Len(cmds) - 1].op = "set"
    /\ cmds[Len(cmds)].op = "get"
    /\ cmds[Len(cmds) - 1].arg[1] = cmds[Len(cmds)].arg[1]
    /\ cmds[Len(cmds) - 1].arg[2] = value

\* C11: set_props(prop=value) followed by get_prop(prop) returns value for
\* every non-empty value other than "-", and returns None (never "" or "-")
\* when the value is "" or "-".
C11_PropertyRoundTrip ==
    \A value \in PropValues :
        RoundTrip(value) =>
            IF value \in {"", "-"} THEN got = PyNone ELSE got = value

---------------------------------------------------------------------------
(* TrueNASInstaller.create_partitions on its own (src/__init__.py 79-155) *)

\* boot_size values: None, and 8 for +8G
BootSizes == {0, 8}

\* one or two disks of any role, capacity and partition table, an existing
\* pool, and the arguments of the calls
InitPlan ==
    /\ entry = "create_partitions"
    /\ pc = "plan"
    /\ uefi = FALSE
    /\ keysource = Unset
    /\ datasets = {BOOT_POOL, RootDataset, DS}
    /\ props = PropsOf(datasets)
    /\ Unused
    /\ \E a \in DiskStates("sda", {UseNone, UseBootloader, UseBootPool}, BOOLEAN) :
          \/ disks = << a >>
          \/ \E b \in DiskStates("sdb", {UseBootloader, UseBootPool}, {FALSE}) :
                disks = << a, b >>
    /\ swap \in BOOLEAN
    /\ boot_size \in BootSizes
    /\ wipe \in BOOLEAN
    /\ pre = Snapshot

PL_CreatePartitions ==
    /\ pc = "plan"
    /\ calls < MaxPlanCalls
    /\ CreatePartitions("plan")
    /\ calls' = calls + 1
    /\ UNCHANGED << entry, upgrade_type, upgrade, cleanup, preserved_data,
                    srcIsFile, isFreeBSD, uefi, got, builder, options, swap,
                    boot_size, wipe, format_efi, todo, partition, unsq, pre,
                    free_space, localVars, mounts, sentinels, upgradeData >>

NextPlan == PL_CreatePartitions

SpecPlan == InitPlan /\ [][NextPlan]_vars

\* the disk has every partition its role requires
Complete(d, sw) ==
    /\ InUse(UseBootloader, d.use) => (d.parts[BIOS] # 0 /\ d.parts[EFI] # 0)
    /\ InUse(UseBootPool, d.use) => ((sw => d.parts[LinuxSwap] # 0) /\ d.parts[ZFS] # 0)

\* invocations that change a partition table or wipe a signature
Modifying == {"sgdisk -Z", "wipefs"} \cup {"sgdisk --new " \o t : t \in PartitionTypes}

C13_SwapSafety ==
    \A i \in 1..Len(pre.disks) :
        NotSwapSafe(pre.disks[i]) =>
            \A j \in 1..Len(cmds) :
                cmds[j] # Cmd("sgdisk --new " \o LinuxSwap, pre.disks[i].name)

\* invocations that create a partition of the pool side or of the boot side
PoolSide == {"sgdisk --new " \o LinuxSwap, "wipefs", "sgdisk --new " \o ZFS}
BootSide == {"sgdisk --new " \o BIOS, "sgdisk --new " \o EFI}

\* C27: a pool-member disk is treated as a bootloader disk too: it has its
\* BIOS and EFI partitions before any swap or pool partition is created on
\* it; a bootloader-only disk never gets a swap or pool partition created,
\* and a disk of role none gets no partition created.
C27_DiskRoles ==
    \A k \in 1..Len(disks) :
       LET d == disks[k]
           ops == DiskOps(d.name)
       IN  /\ d.use = UseNone => \A j \in 1..Len(ops) : ops[j] \notin BootSide \cup PoolSide
           /\ d.use = UseBootloader => \A j \in 1..Len(ops) : ops[j] \notin PoolSide
           /\ d.use = UseBootPool =>
                 /\ (\E j \in 1..Len(ops) : ops[j] \in PoolSide) =>
                        (d.parts[BIOS] # 0 /\ d.parts[EFI] # 0)
                 /\ \A j \in 2..Len(ops) :
                        ops[j] \in BootSide => ops[j - 1] \notin PoolSide
                 /\ (calls > 0 /\ pc = "plan") => Complete(d, swap)

\* C27 witness: a call has created the four partitions of a blank pool-member
\* disk
C27_Witness ==
    /\ calls = 1
    /\ pc = "plan"
    /\ \E k \in 1..Len(disks) :
          /\ disks[k].use = UseBootPool
          /\ pre.disks[k].parts = NoParts
          /\ DiskOps(disks[k].name) = Creations(UseBootPool, TRUE)

\* C28: with wipe set, the first invocation on every disk destroys its
\* partition table, and every call that returns has, on every disk, destroyed
\* the table and then created every partition the role requires, whatever
\* partitions the disk had.
C28_WipeThenCreate ==
    wipe =>
       \A k \in 1..Len(disks) :
          LET ops == DiskOps(disks[k].name)
              one == << "sgdisk -Z" >> \o Creations(disks[k].use, swap)
          IN  /\ ops # << >> => ops[1] = "sgdisk -Z"
              /\ pc = "plan" =>
                    /\ Len(ops) = calls * Len(one)
                    /\ \A j \in 1..Len(ops) : ops[j] = one[((j - 1) % Len(one)) + 1]

\* C28 witness: a wiping call has returned on a pool-member disk that had all
\* its partitions
C28_Witness ==
    /\ wipe
    /\ calls = 1
    /\ pc = "plan"
    /\ \E k \in 1..Len(disks) :
          /\ disks[k].use = UseBootPool
          /\ Complete(pre.disks[k], TRUE)

\* C29: create_partitions(wipe=False) on a pool-member disk whose existing
\* pool partition is smaller than the minimum fails.
C29_ExistingPartitionChecked ==
    (/\ calls > 0
     /\ ~ wipe
     /\ \E k \in 1..Len(disks) :
           /\ pre.disks[k].use = UseBootPool
           /\ pre.disks[k].parts[ZFS] # 0
           /\ pre.disks[k].parts[ZFS] < MIN_ZFS_PARTITION_SIZE)
    => pc = "raised"

----------------------------------------------------------------------------
(* Mount (src/diskutils.py 52-99) and Root.cmd (src/utils.py 157-169) *)

MaxMountCalls == 3

\* the place the Mount under test mounts on
MNT == "mnt"

\* values a keyword of Mount(device, path, fs, **options) is given
OptValues == {PyTrue, PyFalse, PyNone, PyZero, "", "1g", Absent}

\* the order the keywords were passed in: the order of self.options.items()
OptOrder == << "loop", "ro", "size" >>

\* the loop body of Mount.mount (lines 75-81): what one option appends to opts
OptEmit(name, value) ==
    IF Truthy(value)
    THEN << IF value # PyTrue THEN name \o "=" \o value ELSE name >>
    ELSE IF value = PyFalse THEN << >> ELSE << name >>

\* opts after the loop over self.options.items()
RECURSIVE OptList(_, _)
OptList(o, i) ==
    IF i > Len(OptOrder) THEN << >>
    ELSE (IF o[OptOrder[i]] = Absent THEN << >> ELSE OptEmit(OptOrder[i], o[OptOrder[i]]))
         \o OptList(o, i + 1)

\* ",".join(opts)
RECURSIVE Join(_)
Join(opts) ==
    IF opts = << >> THEN ""
    ELSE IF Len(opts) = 1 THEN opts[1]
    ELSE opts[1] \o "," \o Join(Tail(opts))

\* the -o argument of the mount command ("" when there is none): lines 73-83
OptionArg(o) ==
    IF OptList(o, 1) = << >> THEN "" ELSE "-o " \o Join(OptList(o, 1))

\* the mount table after unmounting the topmost mount on x
RECURSIVE UmountTop(_, _)
UmountTop(m, x) ==
    IF m = << >> THEN m
    ELSE IF m[Len(m)] = x THEN SubSeq(m, 1, Len(m) - 1)
    ELSE Append(UmountTop(SubSeq(m, 1, Len(m) - 1), x), m[Len(m)])

\* a Mount is not yet constructed; the mount table is empty
InitMnt ==
    /\ entry = "mount"
    /\ pc = "new"
    /\ uefi = FALSE
    /\ keysource = Unset
    /\ datasets = {}
    /\ props = PropsOf({})
    /\ Unused
    /\ NoDisks
    /\ pre = Snapshot

\* Mount.__init__ (lines 53-59)
M_New ==
    /\ pc = "new"
    /\ options' \in [OptNames -> OptValues]
    /\ pc' = "mount"
    /\ UNCHANGED << entry, upgrade_type, upgrade, cleanup, preserved_data,
                    srcIsFile, isFreeBSD, uefi, calls, got, builder, swap,
                    boot_size, wipe, format_efi, todo, partition, unsq, pre, disks, poolVars, localVars, mounts,
                    cmds, sentinels, upgradeData, exc >>

\* Mount.mount(**run_args) (lines 64-86): the mount command with its -o
\* argument; mount may fail, and the failure is raised when checked
MountMount(check) ==
    /\ cmds' = Append(cmds, Cmd("mount", OptionArg(options)))
    /\ \E ok \in BOOLEAN :
          /\ mounts' = IF ok THEN Append(mounts, MNT) ELSE mounts
          /\ exc' = IF ok \/ ~ check THEN "" ELSE "mount"

\* Mount.unmount(**run_args) (lines 88-92): umount, whatever the state of the
\* path; umount fails on a path that is not mounted, and may fail on one that
\* is; the failure is raised when checked
MountUnmount(check) ==
    /\ cmds' = Append(cmds, Cmd("umount", MNT))
    /\ \E ok \in BOOLEAN :
          /\ ok => IsMount(mounts, MNT)
          /\ mounts' = IF ok THEN UmountTop(mounts, MNT) ELSE mounts
          /\ exc' = IF ok \/ ~ check THEN "" ELSE "umount"

M_Mount ==
    /\ pc = "mount"
    /\ calls < MaxMountCalls
    /\ \E check \in BOOLEAN : MountMount(check)
    /\ calls' = calls + 1
    /\ UNCHANGED << pc, uefi, keysource, props, unusedVars >>

M_Unmount ==
    /\ pc = "mount"
    /\ calls < MaxMountCalls
    /\ \E check \in BOOLEAN : MountUnmount(check)
    /\ calls' = calls + 1
    /\ UNCHANGED << pc, uefi, keysource, props, unusedVars >>

\* Mount.__enter__ (lines 94-95)
M_Enter ==
    /\ pc = "mount"
    /\ calls < MaxMountCalls
    /\ MountMount(TRUE)
    /\ calls' = calls + 1
    /\ UNCHANGED << pc, uefi, keysource, props, unusedVars >>

\* Mount.__exit__ (lines 97-99): unmount when the path is a mount point
M_Exit ==
    /\ pc = "mount"
    /\ calls < MaxMountCalls
    /\ IF IsMount(mounts, MNT)
       THEN MountUnmount(TRUE)
       ELSE /\ exc' = ""
            /\ UNCHANGED << mounts, cmds >>
    /\ calls' = calls + 1
    /\ UNCHANGED << pc, uefi, keysource, props, unusedVars >>

\* arguments of Root(root), and a command to wrap
Roots == {"", "/", " ", "/mnt", "/mnt/"}
TheCmd == "zfs list"

\* str(Path(root)) (utils.py 159, 162)
PathStr(root) ==
    CASE root = "" -> "."
      [] root = "/mnt/" -> "/mnt"
      [] OTHER -> root

\* Root(root).cmd(cmd) (utils.py 158-166): the command line it returns
RootCmd(root, cmd) ==
    IF Strip(PathStr(root)) # ""
    THEN "chroot " \o PathStr(root) \o " " \o cmd
    ELSE cmd

R_Cmd ==
    /\ calls < MaxMountCalls
    /\ \E root \in Roots : got' = RootCmd(root, TheCmd)
    /\ calls' = calls + 1
    /\ UNCHANGED << entry, upgrade_type, upgrade, cleanup, preserved_data,
                    srcIsFile, isFreeBSD, uefi, builder, options, swap,
                    boot_size, wipe, format_efi, todo, partition, unsq, pre, disks, poolVars, localVars, mounts,
                    cmds, sentinels, upgradeData, exc, pc >>

NextMnt == M_New \/ M_Mount \/ M_Unmount \/ M_Enter \/ M_Exit \/ R_Cmd

SpecMnt == InitMnt /\ [][NextMnt]_vars

\* C23: Root(r).cmd(c) is c prefixed with a chroot into r for a non-trivial
\* r, and c itself when r is the empty path or /: what cmd returned is never
\* a chroot into the live root.
C23_ChrootOnlyNonTrivial ==
    got # PyNone =>
       \E r \in Roots :
          got = IF r \in {"", "/"} THEN TheCmd
                ELSE "chroot " \o PathStr(r) \o " " \o TheCmd

\* C24: the mount command carries the options whose value is True as bare
\* names, leaves out the options whose value is falsy, carries the others
\* as name=value, all joined by commas in one -o argument, and has no -o
\* argument when no option is left.
C24_OptionSerialization ==
    LET E(n) == IF options[n] = Absent \/ ~ Truthy(options[n]) THEN << >>
                ELSE IF options[n] = PyTrue THEN << n >>
                ELSE << n \o "=" \o options[n] >>
        all == E(OptOrder[1]) \o E(OptOrder[2]) \o E(OptOrder[3])
    IN  \A i \in 1..Len(cmds) :
           cmds[i].op = "mount" =>
              cmds[i].arg = IF all = << >> THEN "" ELSE "-o " \o Join(all)

\* C25: on a Mount that is not mounted, unmount() and the exit of the scope
\* raise nothing and leave the mount table as it is.
C25_UnmountIdempotent ==
    [][((M_Unmount \/ M_Exit) /\ ~ IsMount(mounts, MNT)) =>
          (exc' = "" /\ mounts' = mounts)]_vars

----------------------------------------------------------------------------
(* PoolBuilder (src/zfs.py 97-168) *)

MaxBuilderCalls == 3

\* d[name] = value on a dict kept as the sequence of its items
DictSet(d, name, value) ==
    IF \E i \in 1..Len(d) : d[i][1] = name
    THEN [i \in 1..Len(d) |-> IF d[i][1] = name THEN << name, value >> ELSE d[i]]
    ELSE Append(d, << name, value >>)

\* the -o / -O arguments of the items of a dict (lines 145-150)
RECURSIVE NamedArgs(_, _, _)
NamedArgs(flag, prefix, d) ==
    IF d = << >> THEN << >>
    ELSE << flag, prefix \o d[1][1] \o "=" \o d[1][2] >> \o NamedArgs(flag, prefix, Tail(d))

\* the arguments of one vdev (lines 154-160): the devices bare when there is
\* no type and one device, after "mirror" when there is no type and several
\* devices, after the type otherwise
VdevArgsWrong(type, devices) ==
    IF ~ Truthy(type) \/ Strip(type) = ""
    THEN << "mirror" >> \o devices
    ELSE << type >> \o devices
VdevArgs(type, devices) ==
    IF ~ Truthy(type) \/ Strip(type) = ""
    THEN IF Len(devices) > 1 THEN << "mirror" >> \o devices ELSE devices
    ELSE << type >> \o devices

RECURSIVE VdevsArgs(_)
VdevsArgs(vdevs) ==
    IF vdevs = << >> THEN << >>
    ELSE VdevArgs(vdevs[1][1], vdevs[1][2]) \o VdevsArgs(Tail(vdevs))

\* PoolBuilder.build_cmd (lines 139-161)
BuildCmd(b) ==
    << "zpool", "create" >> \o
    (IF ~ b.default_features THEN << "-d" >> ELSE << >>) \o
    (IF b.force THEN << "-f" >> ELSE << >>) \o
    NamedArgs("-o", "", b.props) \o
    NamedArgs("-o", "feature@", b.features) \o
    NamedArgs("-O", "", b.fsprops) \o
    << BOOT_POOL >> \o
    VdevsArgs(b.vdevs)

\* what add_vdev is given
VdevTypes == {PyNone, "", " ", "mirror"}
VdevDevices == {<< "sda3" >>, << "sda3", "sdb3" >>}

InitPB ==
    /\ entry = "builder"
    /\ pc = "new"
    /\ uefi = FALSE
    /\ keysource = Unset
    /\ datasets = {}
    /\ props = PropsOf({})
    /\ Unused
    /\ NoDisks
    /\ pre = Snapshot

pbVars == << entry, upgrade_type, upgrade, cleanup, preserved_data, srcIsFile,
             isFreeBSD, uefi, got, options, swap, boot_size, wipe, format_efi, todo, partition, unsq, pre, disks,
             poolVars, localVars, mounts, sentinels, upgradeData >>

\* PoolBuilder(name, default_features, force)
PB_New ==
    /\ pc = "new"
    /\ \E default_features, force \in BOOLEAN :
          builder' = NewBuilder(default_features, force)
    /\ pc' = "builder"
    /\ UNCHANGED << pbVars, cmds, exc, calls >>

\* add_prop / add_props (lines 108-115)
PB_AddProp ==
    /\ pc = "builder"
    /\ calls < MaxBuilderCalls
    /\ \E value \in {"9", "12"} :
          builder' = [builder EXCEPT !.props = DictSet(@, "ashift", value)]
    /\ calls' = calls + 1
    /\ UNCHANGED << pbVars, cmds, exc, pc >>

\* add_fsprop / add_fsprops (lines 117-124)
PB_AddFsprop ==
    /\ pc = "builder"
    /\ calls < MaxBuilderCalls
    /\ \E value \in {"off", "noauto"} :
          builder' = [builder EXCEPT !.fsprops = DictSet(@, "canmount", value)]
    /\ calls' = calls + 1
    /\ UNCHANGED << pbVars, cmds, exc, pc >>

\* set_feature / enable_features (lines 126-133)
PB_SetFeature ==
    /\ pc = "builder"
    /\ calls < MaxBuilderCalls
    /\ \E action \in {"enabled", "disabled"} :
          builder' = [builder EXCEPT !.features = DictSet(@, "encryption", action)]
    /\ calls' = calls + 1
    /\ UNCHANGED << pbVars, cmds, exc, pc >>

\* add_vdev (lines 135-137)
PB_AddVdev ==
    /\ pc = "builder"
    /\ calls < MaxBuilderCalls
    /\ \E type \in VdevTypes, devices \in VdevDevices :
          builder' = [builder EXCEPT !.vdevs = Append(@, << type, devices >>)]
    /\ calls' = calls + 1
    /\ UNCHANGED << pbVars, cmds, exc, pc >>

\* build / __call__ (lines 163-168): the command is built and run, checked,
\* whatever was built before
PB_Build ==
    /\ pc = "builder"
    /\ calls < MaxBuilderCalls
    /\ cmds' = Append(cmds, Cmd("zpool create", BuildCmd(builder)))
    /\ \E ok \in BOOLEAN : exc' = IF ok THEN "" ELSE "zpool"
    /\ calls' = calls + 1
    /\ UNCHANGED << pbVars, builder, pc >>

\* the forms of the encryption argument of BootPool.create: None, a
\* passphrase, or a pair of an encryption value and a passphrase
Encryptions ==
    {[kind |-> "none", passphrase |-> PyNone], [kind |-> "str", passphrase |-> "pw"]}
    \cup {[kind |-> "tuple", passphrase |-> p] : p \in {"pw", "", PyNone}}

\* the forms of the keystore argument: None, a name, or a pair
Keystores == {PyNone, "keystore", "<tuple>"}

\* enable_features over a list (lines 130-133)
RECURSIVE EnableFeatures(_, _)
EnableFeatures(d, features) ==
    IF features = << >> THEN d
    ELSE EnableFeatures(DictSet(d, features[1], "enabled"), Tail(features))

\* BootPool.create (bootpool.py 21-80) for given arguments.  The feature is
\* added when the passphrase is truthy (lines 40-42); a requested encryption
\* defaults the keystore (43-44); a keystore pair is unpacked from
\* `encryption`, by then the string "on", into "o" and "n", or from None,
\* which raises (71); `passphrase` is unbound at line 75 when no encryption
\* was requested
BP_CreateWith(encryption, keystore_arg, vdev) ==
    LET requested == encryption.kind # "none"
        passphrase == encryption.passphrase
        features == IF requested /\ Truthy(passphrase) THEN << "encryption" >> ELSE << >>
        keystore == IF requested /\ ~ Truthy(keystore_arg) THEN "keystore" ELSE keystore_arg
        name == IF keystore = "<tuple>" THEN "o" ELSE keystore
        b0 == NewBuilder(FALSE, TRUE)
        b == [b0 EXCEPT !.features = EnableFeatures(@, features),
                        !.fsprops = DictSet(DictSet(@, "canmount", "off"), "mountpoint", "none"),
                        !.vdevs = << vdev >>]
        ks == DatasetName(BOOT_POOL, name)
    IN  /\ pc = "new"
        /\ builder' = b
        /\ pc' = "created"
        /\ \E ok \in BOOLEAN :
              IF ~ ok
              THEN /\ cmds' = << Cmd("zpool create", BuildCmd(b)) >>
                   /\ exc' = "zpool"
                   /\ UNCHANGED << datasets, props, keysource >>
              ELSE IF ~ Truthy(keystore)
              THEN /\ cmds' = << Cmd("zpool create", BuildCmd(b)), Cmd("create", RootDataset) >>
                   /\ exc' = ""
                   /\ datasets' = {BOOT_POOL, RootDataset}
                   /\ props' = PropsOf(datasets')
                   /\ keysource' = keysource
              ELSE IF keystore = "<tuple>" /\ ~ requested
              THEN /\ cmds' = << Cmd("zpool create", BuildCmd(b)), Cmd("create", RootDataset) >>
                   /\ exc' = "unpack"
                   /\ datasets' = {BOOT_POOL, RootDataset}
                   /\ props' = PropsOf(datasets')
                   /\ keysource' = keysource
              ELSE /\ cmds' = << Cmd("zpool create", BuildCmd(b)), Cmd("create", RootDataset),
                                Cmd("create", ks), Cmd("set keysource", name) >>
                   /\ exc' = IF requested THEN "" ELSE "unbound_passphrase"
                   /\ datasets' = {BOOT_POOL, RootDataset, ks}
                   /\ props' = [d \in datasets' |-> IF d = ks THEN KeystoreProps ELSE ContainerProps]
                   /\ keysource' = name
        /\ UNCHANGED << entry, upgrade_type, upgrade, cleanup, preserved_data,
                        srcIsFile, isFreeBSD, uefi, got, options, swap, boot_size,
                        wipe, format_efi, todo, partition, unsq, pre, disks, poolExists, imported, bootfs, free_space,
                        localVars, mounts, sentinels, upgradeData, calls >>

BP_Create ==
    \E encryption \in Encryptions, keystore \in Keystores,
       type \in VdevTypes, devices \in VdevDevices :
          BP_CreateWith(encryption, keystore, << type, devices >>)

NextPB ==
    \/ PB_New \/ PB_AddProp \/ PB_AddFsprop \/ PB_SetFeature \/ PB_AddVdev \/ PB_Build
    \/ BP_Create

SpecPB == InitPB /\ [][NextPB]_vars

\* C22: over any sequence of build() and __call__ on one builder, at most one
\* pool-creation command is issued.
C22_SingleShot ==
    Len(SelectSeq(cmds, LAMBDA c : c.op = "zpool create")) <= 1

\* the arguments after the pool name
AfterName(args) ==
    LET n == CHOOSE i \in 1..Len(args) : args[i] = BOOT_POOL
    IN  SubSeq(args, n + 1, Len(args))

\* the topology of a list of vdevs: a vdev without a type is a mirror of its
\* devices when it has several and its one device bare otherwise, a vdev
\* with a type keeps it, and the devices keep their order
RECURSIVE Topology(_)
Topology(vdevs) ==
    IF vdevs = << >> THEN << >>
    ELSE LET type == vdevs[1][1]
             devices == vdevs[1][2]
         IN  (IF type \in {PyNone, "", " "}
              THEN (IF Len(devices) > 1 THEN << "mirror" >> ELSE << >>)
              ELSE << type >>) \o devices \o Topology(Tail(vdevs))

\* C35: every pool-creation command lists, after the pool name, the vdevs
\* added so far: a vdev without a type as a mirror when it has more than one
\* device and as its bare device when it has one, a vdev with a type under
\* that type, the devices in the order they were added.
C35_Topology ==
    \A i \in 1..Len(cmds) :
       cmds[i].op = "zpool create" =>
          \E n \in 0..Len(builder.vdevs) :
             AfterName(cmds[i].arg) = Topology(SubSeq(builder.vdevs, 1, n))

\* C35 witness: a pool was created from a single untyped device and an
\* untyped pair
C35_Witness ==
    /\ Len(builder.vdevs) = 2
    /\ builder.vdevs[1] = << "", << "sda3" >> >>
    /\ builder.vdevs[2] = << " ", << "sda3", "sdb3" >> >>
    /\ cmds # << >>
    /\ AfterName(cmds[Len(cmds)].arg) = << "sda3", "mirror", "sda3", "sdb3" >>

\* the pool-creation command enables the encryption feature
EncryptionEnabled(c) ==
    \E i \in 1..Len(c.arg) : c.arg[i] = "feature@encryption=enabled"

\* C32: BootPool.create with encryption requested, with or without a
\* passphrase, enables the encryption feature in the pool-creation command,
\* creates a keystore dataset and sets the keysource property of the pool;
\* with no encryption and no keystore requested it does none of these.
C32_EncryptionAndKeystore ==
    [][\A encryption \in Encryptions, keystore \in Keystores,
          type \in VdevTypes, devices \in VdevDevices :
          (BP_CreateWith(encryption, keystore, << type, devices >>) /\ exc' = "") =>
             /\ encryption.kind # "none" =>
                   /\ EncryptionEnabled(cmds'[1])
                   /\ Cardinality(datasets') = 3
                   /\ keysource' # Unset
             /\ (encryption.kind = "none" /\ keystore = PyNone) =>
                   /\ ~ EncryptionEnabled(cmds'[1])
                   /\ Cardinality(datasets') = 2
                   /\ keysource' = Unset]_vars

---------------------------------------------------------------------------
(* TrueNASInstaller.install_bootloader (src/__init__.py 192-241), one step
   per scope: `with bootfs`, the loop over the bootloader disks, mkdosfs,
   `with Mount(partition.dev(), root / "boot/efi", "vfat")` and its body.
   As in install_update, umount of a mounted path succeeds. *)

\* what sgdisk may report as the type of the partition found
PartitionGuids == {EFI, ZFS}

\* disk.get_partition(2), or for a disk outside the pool the first partition
\* of type EFI (lines 206-211): the partition's device name, None when the
\* disk has none; create_partitions makes the EFI partition the second one
EfiPartition(d) == IF NoPartition(d, EFI) THEN PyNone ELSE d.name \o "2"
EfiDevs == {"sda2", "sdb2"}

\* `format_efi or partition.get_guid() != PartitionType.EFI` (line 215)
NeedsFormat(format, guid) == format \/ guid # EFI

\* set([disk for disk in self.disks if DiskUse.Bootloader in disk.use])
BootloaderDisks(ds) ==
    {ds[i].name : i \in {j \in 1..Len(ds) : InUse(UseBootloader, ds[j].use)}}

\* an installed pool whose bootfs names OldEnv, one or two disks of any role
\* and partition table, install_bootloader about to be called
InitBL ==
    /\ entry = "install_bootloader"
    /\ pc = "bl_enter"
    /\ upgrade_type = "inplace"
    /\ upgrade = FALSE
    /\ cleanup = TRUE
    /\ preserved_data = FALSE
    /\ srcIsFile = FALSE
    /\ isFreeBSD = FALSE
    /\ uefi \in BOOLEAN
    /\ poolExists = TRUE
    /\ imported = TRUE
    /\ keysource \in {Unset, KeystoreDataset}
    /\ datasets = {BOOT_POOL, RootDataset, OldEnv} \cup
                  (IF keysource = KeystoreDataset THEN {KeystoreDataset} ELSE {})
    /\ props = PropsOf(datasets)
    /\ bootfs = OldEnv
    /\ free_space = MaxSize
    /\ manifest = NoManifest
    /\ update_mnt = FALSE
    /\ bootenvName = ""
    /\ old_bootfs_prop = PyNone
    /\ setup_machine_id = FALSE
    /\ configure_serial = FALSE
    /\ sentinels = {}
    /\ upgradeData = FALSE
    /\ exc = ""
    /\ calls = 0
    /\ got = PyNone
    /\ builder = NewBuilder(TRUE, FALSE)
    /\ options = NoOptions
    /\ mounts = << >>
    /\ cmds = << >>
    /\ \E a \in DiskStates("sda", {UseBootPool}, {FALSE}) :
          /\ a.capacity = 62500000
          /\ \/ disks = << a >>
             \/ \E b \in DiskStates("sdb", {UseNone, UseBootloader, UseBootPool},
                                    {FALSE}) :
                   b.capacity = 62500000 /\ disks = << a, b >>
    /\ swap = FALSE
    /\ boot_size = 0
    /\ wipe = FALSE
    /\ format_efi \in BOOLEAN
    /\ todo = {}
    /\ partition = PyNone
    /\ unsq = NoUnsq
    /\ pre = Snapshot

blFixed == << entry, upgrade_type, upgrade, cleanup, preserved_data, srcIsFile,
              isFreeBSD, uefi, poolExists, imported, datasets, bootfs, keysource,
              free_space, localVars, sentinels, upgradeData, calls, got, builder,
              options, disks, swap, boot_size, wipe, format_efi, unsq, pre >>

\* entering `with bootfs` (lines 193-195): BootEnviroment.mount; when one of
\* its mounts fails the exception leaves install_bootloader
BL_Enter ==
    /\ pc = "bl_enter"
    /\ LET name == BootfsEnv(GetProp(bootfs))
           order == BEMountOrder(uefi, keysource)
       IN  /\ props' = [props EXCEPT ![name] = DatasetMountProps(@, BEPath(name))]
           /\ \E n \in 0..Len(order) :
                 /\ mounts' = mounts \o SubSeq(order, 1, n)
                 /\ cmds' = cmds \o << Cmd("set mountpoint", name) >>
                                 \o CmdsOf("mount", SubSeq(order, 1, n))
                 /\ IF n = Len(order)
                    THEN /\ todo' = BootloaderDisks(disks)
                         /\ pc' = "bl_loop"
                         /\ exc' = exc
                    ELSE /\ todo' = todo
                         /\ Raised("enter_be")
    /\ UNCHANGED << blFixed, partition >>

\* the head of the loop body (lines 203-222): the next disk of the set, in
\* any order; a disk without EFI partition is skipped, the partition is
\* formatted when asked for or when its type is wrong
BL_Disk ==
    /\ pc = "bl_loop"
    /\ \E i \in 1..Len(disks) :
          /\ disks[i].name \in todo
          /\ todo' = todo \ {disks[i].name}
          /\ partition' = EfiPartition(disks[i])
          /\ IF partition' = PyNone
             THEN /\ pc' = "bl_loop"
                  /\ UNCHANGED << cmds, exc >>
             ELSE \E guid \in PartitionGuids :
                     IF NeedsFormat(format_efi, guid)
                     THEN /\ cmds' = Append(cmds, Cmd("mkdosfs", partition'))
                          /\ \/ /\ pc' = "bl_mount_efi"
                                /\ exc' = exc
                             \/ /\ pc' = "bl_exit_be"
                                /\ exc' = "mkdosfs"
                     ELSE /\ pc' = "bl_mount_efi"
                          /\ UNCHANGED << cmds, exc >>
    /\ UNCHANGED << blFixed, props, mounts >>

\* entering `with Mount(partition.dev(), root / "boot/efi", "vfat")` (line 224)
BL_MountEfi ==
    /\ pc = "bl_mount_efi"
    /\ \/ /\ mounts' = Append(mounts, partition)
          /\ cmds' = Append(cmds, Cmd("mount", partition))
          /\ pc' = "bl_efi_body"
          /\ exc' = exc
       \/ /\ pc' = "bl_exit_be"
          /\ exc' = "mount_efi"
          /\ UNCHANGED << mounts, cmds >>
    /\ UNCHANGED << blFixed, props, todo, partition >>

\* the body of the EFI scope (lines 225-241): the payload is copied when
\* absent, and efibootmgr registers the entry on a UEFI-booted system
BL_EfiBody ==
    /\ pc = "bl_efi_body"
    /\ \/ /\ cmds' = cmds \o (IF uefi THEN << Cmd("efibootmgr", partition) >>
                                      ELSE << >>)
          /\ exc' \in {exc} \cup (IF uefi THEN {"efibootmgr"} ELSE {})
       \/ /\ exc' = "copy"
          /\ cmds' = cmds
    /\ pc' = "bl_exit_efi"
    /\ UNCHANGED << blFixed, props, mounts, todo, partition >>

\* leaving the EFI scope: Mount.__exit__, whether or not the body failed
BL_ExitEfi ==
    /\ pc = "bl_exit_efi"
    /\ mounts' = MountExit(mounts, partition)
    /\ cmds' = cmds \o MountExitCmds(mounts, partition)
    /\ pc' = IF exc = "" THEN "bl_loop" ELSE "bl_exit_be"
    /\ UNCHANGED << blFixed, props, exc, todo, partition >>

\* leaving `with bootfs`, after the last disk or on an exception:
\* Dataset.__exit__ and BootEnviroment.unmount
BL_ExitBE ==
    /\ pc = "bl_exit_be" \/ (pc = "bl_loop" /\ todo = {})
    /\ LET name == BootfsEnv(GetProp(bootfs))
           path == Mntpoint(props[name])
           order == BEUnmountOrder(mounts, uefi, keysource)
       IN  IF Truthy(path) /\ path # "legacy" /\ PathIsMount(mounts, path, name)
           THEN /\ mounts' = UmountAll(mounts, order)
                /\ cmds' = cmds \o CmdsOf("umount", order)
                /\ props' = [props EXCEPT ![name] = DatasetUnmountProps(@)]
           ELSE UNCHANGED << mounts, cmds, props >>
    /\ pc' = IF exc = "" THEN "done" ELSE "raised"
    /\ UNCHANGED << blFixed, exc, todo, partition >>

NextBL ==
    \/ BL_Enter
    \/ BL_Disk
    \/ BL_MountEfi
    \/ BL_EfiBody
    \/ BL_ExitEfi
    \/ BL_ExitBE

SpecBL == InitBL /\ [][NextBL]_vars

\* number of EFI partitions mounted after the first i invocations
EfiOpen(i) ==
    Cardinality({j \in 1..i : cmds[j].op = "mount" /\ cmds[j].arg \in EfiDevs})
    - Cardinality({j \in 1..i : cmds[j].op = "umount" /\ cmds[j].arg \in EfiDevs})

\* C33: in install_bootloader the mount scopes nest LIFO: an EFI partition is
\* mounted only while the whole boot environment is mounted and no other EFI
\* partition is, no mount of the boot environment is released while an EFI
\* partition is mounted, and none is left mounted when install_bootloader
\* returns or raises, whatever step failed
C33_EfiScopesNest ==
    LET BE == Range(BEMountOrder(uefi, keysource))
        efi == {i \in 1..Len(mounts) : mounts[i] \in EfiDevs}
    IN  /\ Cardinality(efi) <= 1
        /\ efi # {} => \A y \in BE : IsMount(mounts, y)
        /\ \A i \in 1..Len(cmds) :
              /\ (cmds[i].op = "mount" /\ cmds[i].arg \in EfiDevs) =>
                    /\ EfiOpen(i - 1) = 0
                    /\ \A j \in 1..i : ~ (cmds[j].op = "umount" /\ cmds[j].arg \in BE)
              /\ (cmds[i].op = "umount" /\ cmds[i].arg \in BE) => EfiOpen(i - 1) = 0
        /\ pc \in {"done", "raised"} => efi = {}

\* C33 witness: the first disk's EFI scope was entered and left, a step
\* inside the second disk's EFI scope failed, and everything was released
C33_Witness ==
    /\ pc = "raised"
    /\ exc \in {"copy", "efibootmgr"}
    /\ mounts = << >>
    /\ cmds[Len(cmds)] = Cmd("umount", "root")
    /\ {cmds[i].arg : i \in {j \in 1..Len(cmds) : cmds[j].op = "mount"}}
          \cap EfiDevs = EfiDevs
    /\ EfiOpen(Len(cmds)) = 0

---------------------------------------------------------------------------
(* unsquashfs() (src/utils.py 177-216), a generator over the output of the
   subprocess, and the extraction step of install_update that consumes it
   (src/__init__.py 327-348).  The output is a sequence of characters: "CR"
   and "NL", "%", a progress body "[..] extracted/total percent" and any
   other text "x". *)

MaxOut == 4

Tok(c, e, t) == [c |-> c, extracted |-> e, total |-> t]
Tokens == {Tok(c, 0, 0) : c \in {"CR", "NL", "%", "x"}} \cup
          {Tok("body", e, 2) : e \in 1..2}

\* RE_UNSQUASHFS_PROGRESS.match(buffer[1:]) (lines 172-174, 210)
Matches(b) == Len(b) >= 2 /\ b[1].c = "body" /\ b[2].c = "%"

\* int(m.group("extracted")) / int(m.group("total")), in thousandths
Fraction(tok) == (tok.extracted * 1000) \div tok.total

\* the loop body of lines 203-212 for one character: the buffer afterwards
\* and the progress yielded, if any
Feed(buffer, char) ==
    LET b1 == Append(buffer, char)
        b2 == IF char.c = "NL" THEN << >> ELSE b1
        hit == /\ b2 # << >>
               /\ b2[1].c = "CR"
               /\ b2[Len(b2)].c = "%"
               /\ Matches(SubSeq(b2, 2, Len(b2)))
    IN  [buffer |-> IF hit THEN << >> ELSE b2,
         progress |-> IF hit THEN << Fraction(b2[2]) >> ELSE << >>]

\* p.stdout.read(1) returns b"": the pipe is drained and its write end closed
AtEOFWrong(u) == u.state \in {"closed", "exited"}
AtEOF(u) == u.pipe = << >> /\ u.state \in {"closed", "exited"}

\* install_update has created the new environment and mounted its root
\* dataset (line 329); the extraction is about to start
InitUQ ==
    /\ entry = "install_update"
    /\ pc = "iu_extract"
    /\ upgrade_type = "inplace"
    /\ upgrade = FALSE
    /\ cleanup \in BOOLEAN
    /\ preserved_data = FALSE
    /\ srcIsFile = FALSE
    /\ isFreeBSD = FALSE
    /\ uefi = FALSE
    /\ poolExists = TRUE
    /\ imported = TRUE
    /\ keysource = Unset
    /\ bootenvName = EnvName("22.12")
    /\ datasets = {BOOT_POOL, RootDataset, OldEnv, bootenvName}
    /\ props = [PropsOf(datasets) EXCEPT ![bootenvName]["mountpoint"] = "legacy"]
    /\ bootfs = OldEnv
    /\ free_space = MaxSize
    /\ manifest = [version |-> "22.12", size |-> 1]
    /\ update_mnt = FALSE
    /\ old_bootfs_prop = GetProp(bootfs)
    /\ setup_machine_id = FALSE
    /\ configure_serial = FALSE
    /\ sentinels = {}
    /\ upgradeData = FALSE
    /\ exc = ""
    /\ calls = 0
    /\ got = PyNone
    /\ builder = NewBuilder(TRUE, FALSE)
    /\ options = NoOptions
    /\ mounts = << "root" >>
    /\ cmds = << Cmd("create", bootenvName), Cmd("mount", "root") >>
    /\ disks = InstalledDisks
    /\ swap = FALSE
    /\ boot_size = 0
    /\ wipe = FALSE
    /\ format_efi = FALSE
    /\ todo = {}
    /\ partition = PyNone
    /\ unsq = NoUnsq
    /\ pre = Snapshot

uqFixed == << entry, upgrade_type, upgrade, cleanup, preserved_data, srcIsFile,
              isFreeBSD, uefi, calls, got, builder, options, swap, boot_size,
              wipe, format_efi, todo, partition, pre, disks, poolVars, localVars,
              sentinels, upgradeData >>

\* subprocess.Popen(cmd, stdout=PIPE, stderr=STDOUT) (line 200)
UQ_Popen ==
    /\ pc = "iu_extract"
    /\ unsq' = [NoUnsq EXCEPT !.state = "running"]
    /\ cmds' = Append(cmds, Cmd("unsquashfs", "root"))
    /\ pc' = "uq_read"
    /\ UNCHANGED << uqFixed,
                    mounts, exc >>

\* the subprocess writes a character to its output
UQ_Write ==
    /\ unsq.state = "running"
    /\ Len(unsq.written) < MaxOut
    /\ \E char \in Tokens :
          unsq' = [unsq EXCEPT !.written = Append(@, char),
                               !.pipe = Append(@, char)]
    /\ UNCHANGED << pc, uqFixed,
                    mounts, cmds, exc >>

\* the subprocess closes its output, and exits with some status
UQ_Close ==
    /\ unsq.state = "running"
    /\ unsq' = [unsq EXCEPT !.state = "closed"]
    /\ UNCHANGED << pc, uqFixed,
                    mounts, cmds, exc >>

UQ_Exit ==
    /\ unsq.state \in {"running", "closed"}
    /\ \E returncode \in {0, 1} :
          unsq' = [unsq EXCEPT !.state = "exited", !.returncode = returncode]
    /\ UNCHANGED << pc, uqFixed,
                    mounts, cmds, exc >>

\* one turn of `for char in iter(lambda: p.stdout.read(1), b"")` (lines
\* 203-212); a progress is yielded to install_update, which logs nine
\* tenths of it (lines 338-341); read blocks while the pipe is empty and open
UQ_Read ==
    /\ pc = "uq_read"
    /\ IF AtEOF(unsq)
       THEN /\ pc' = "uq_wait"
            /\ UNCHANGED << unsq, cmds >>
       ELSE /\ unsq.pipe # << >>
            /\ LET r == Feed(unsq.buffer, Head(unsq.pipe))
               IN  /\ unsq' = [unsq EXCEPT
                                 !.pipe = Tail(@),
                                 !.buffer = r.buffer,
                                 !.yielded = @ \o r.progress,
                                 !.live = IF r.progress # << >> /\ unsq.state = "running"
                                          THEN @ + 1 ELSE @]
                   /\ cmds' = cmds \o
                        [i \in 1..Len(r.progress) |->
                            Cmd("progress", ToString((r.progress[i] * 9) \div 10))]
            /\ pc' = pc
    /\ UNCHANGED << uqFixed,
                    mounts, exc >>

\* p.wait() and the test of p.returncode (lines 214-216); install_update
\* logs the CalledProcessError and re-raises it (lines 342-346)
UQ_Wait ==
    /\ pc = "uq_wait"
    /\ unsq.state = "exited"
    /\ exc' = IF unsq.returncode # 0 THEN "extract" ELSE exc
    /\ pc' = "uq_leave"
    /\ UNCHANGED << uqFixed,
                    mounts, cmds, unsq >>

\* leaving `with Mount(bootenv.name, bootenv.root, fs="zfs")`: Mount.__exit__;
\* an exception goes on to the handler of line 454
UQ_Leave ==
    /\ pc = "uq_leave"
    /\ mounts' = MountExit(mounts, "root")
    /\ cmds' = cmds \o MountExitCmds(mounts, "root")
    /\ pc' = IF exc = "" THEN "iu_set_mountpoint" ELSE "iu_except"
    /\ UNCHANGED << uqFixed,
                    exc, unsq >>

NextUQ ==
    \/ UQ_Popen
    \/ UQ_Write
    \/ UQ_Close
    \/ UQ_Exit
    \/ UQ_Read
    \/ UQ_Wait
    \/ UQ_Leave
    \/ IU_SetMountpoint
    \/ IU_Except
    \/ IU_Finally

SpecUQ == InitUQ /\ [][NextUQ]_vars

\* what the generator yields for the output `out`, starting with `buffer`
RECURSIVE Progress(_, _)
Progress(buffer, out) ==
    IF out = << >> THEN << >>
    ELSE LET r == Feed(buffer, Head(out))
         IN  r.progress \o Progress(r.buffer, Tail(out))

\* C34: the generator signals the non-zero exit only after the subprocess
\* has exited and every progress value of its output has been delivered to
\* install_update, which then starts no post-install step and is on its way
\* through the rollback; the post-install steps start only after a zero exit
C34_ErrorAfterExit ==
    /\ exc = "extract" =>
          /\ unsq.state = "exited"
          /\ unsq.returncode # 0
          /\ unsq.pipe = << >>
          /\ unsq.yielded = Progress(<< >>, unsq.written)
          /\ pc \in {"uq_leave", "iu_except", "iu_finally", "raised"}
          /\ \A i \in 1..Len(cmds) : cmds[i].op # "set mountpoint"
          /\ pc = "raised" /\ cleanup => bootenvName \notin datasets
    /\ pc \in {"iu_set_mountpoint", "iu_enter_be"} =>
          unsq.state = "exited" /\ unsq.returncode = 0

\* C34 witness: a progress was delivered while the subprocess was running,
\* the subprocess failed, and install_update raised after the rollback
C34_Witness ==
    /\ pc = "raised"
    /\ exc = "extract"
    /\ unsq.live >= 1
    /\ Cmd("progress", "450") \in Range(cmds)
    /\ Cmd("destroy", bootenvName) \in Range(cmds)

====
